---- MODULE Spec2Model ----
(***************************************************************************)
(* A model of brokaw's raw NNTP layer: the wire grammar of raw/parse.rs,   *)
(* the response model of raw/response.rs and the connection engine of      *)
(* raw/connection.rs.                                                      *)
(*                                                                         *)
(* Bytes are their numeric values; a buffer, a line or a stream is a       *)
(* sequence of bytes.  Rust slices are 0-based and half open, sequences    *)
(* here are 1-based: the slice b[s..e] is SubSeq(b, s + 1, e).             *)
(***************************************************************************)
EXTENDS Integers, Sequences, FiniteSets, TLC

\* ------------------------------------------------------------------ bytes
CR == 13
LF == 10
SP == 32
DOT == 46

CRLF == <<CR, LF>>

\* one_of("0123456789")
IsDigit(c) == c \in 48..57

\* A first digit that may be any digit.
IsAnyDigit(c) == c \in 48..57

\* one_of("12345")
IsFirstDigit(c) == c \in 49..53

Min(a, b) == IF a < b THEN a ELSE b

\* The slice b[from..] (from is a 0-based offset).
SliceFrom(b, from) == SubSeq(b, from + 1, Len(b))

\* The slice b[from..to) (0-based, half open).
Slice(b, from, to) == SubSeq(b, from + 1, to)

\* ------------------------------------------------------------ raw/parse.rs
\* nom's take_until("\r\n"): the 1-based position of the first CR that is
\* directly followed by LF, 0 when there is none (the combinator fails).
FirstCRLF(b) ==
    LET hits == {i \in 1..(Len(b) - 1) : b[i] = CR /\ b[i + 1] = LF}
    IN  IF hits = {} THEN 0 ELSE CHOOSE i \in hits : \A j \in hits : i <= j

\* terminated(take_until("\r\n"), crlf): the line before the first CRLF and
\* what follows that CRLF.
take_line(b) ==
    LET p == FirstCRLF(b)
    IN  IF p = 0
        THEN [ok |-> FALSE, rest |-> b, line |-> <<>>]
        ELSE [ok |-> TRUE, rest |-> SliceFrom(b, p + 1), line |-> SubSeq(b, 1, p - 1)]

\* tuple((one_of("12345"), one_of_digit, one_of_digit)) and &b[0..3]
take_response_code(b) ==
    IF Len(b) >= 3 /\ IsFirstDigit(b[1]) /\ IsDigit(b[2]) /\ IsDigit(b[3])
    THEN [ok |-> TRUE, rest |-> SliceFrom(b, 3), code |-> SubSeq(b, 1, 3)]
    ELSE [ok |-> FALSE, rest |-> b, code |-> <<>>]

\* An end-of-data-block test that looks at the first byte only.
StartsWithDot(b) == b # <<>> /\ b[1] = DOT

is_end_of_datablock(b) == b = <<DOT>>

\* A parse that accepts a prefix of its input.
PrefixAccepted(rest) == TRUE

\* all_consuming: a parse that leaves input is a failure.
AllConsumed(rest) == rest = <<>>

\* all_consuming(tuple((take_response_code, char(' '), take_until("\r\n"), crlf)))
parse_first_line(b) ==
    LET fail == [ok |-> FALSE, rest |-> b, code |-> <<>>, data |-> <<>>, buffer |-> b]
        c    == take_response_code(b)
        r1   == c.rest
        r2   == SliceFrom(r1, 1)
        p    == FirstCRLF(r2)
        r3   == SliceFrom(r2, p + 1)
    IN  IF ~c.ok THEN fail
        ELSE IF r1 = <<>> \/ r1[1] # SP THEN fail
        ELSE IF p = 0 THEN fail
        ELSE IF ~AllConsumed(r3) THEN fail
        ELSE [ok |-> TRUE, rest |-> r3, code |-> c.code,
              data |-> SubSeq(r2, 1, p - 1), buffer |-> b]

\* all_consuming(take_line)
parse_data_block_line(b) ==
    LET t == take_line(b)
    IN  IF t.ok /\ AllConsumed(t.rest) THEN t
        ELSE [ok |-> FALSE, rest |-> b, line |-> <<>>]

\* ------------------------------------------------ types/response_code.rs
\* ResponseCode is Known(Kind) or Unknown(u16); a code is kept here as its
\* number together with whether the table knows it.
KnownCodes ==
    {101, 200, 201, 205, 211, 220, 221, 222, 223, 281, 381,
     400, 411, 420, 423, 430, 502}

\* The kinds whose responses carry a data-block section.
MultilineCodes == {101, 220, 221, 222}

\* impl From<u16> for ResponseCode
ResponseCodeFrom(n) == [known |-> n \in KnownCodes, num |-> n]

\* impl From<ResponseCode> for u16
U16From(code) == code.num

\* ResponseCode::is_multiline
is_multiline_code(code) == code.known /\ code.num \in MultilineCodes

\* --------------------------------------------------------- raw/response.rs
NoDataBlocks == [present |-> FALSE, payload |-> <<>>, line_boundaries |-> <<>>]

NoResponse ==
    [code |-> ResponseCodeFrom(0), first_line |-> <<>>, data_blocks |-> NoDataBlocks]

\* Lines::next over the whole iterator: payload[start..end] per boundary.
DataBlocksLines(db) ==
    [i \in 1..Len(db.line_boundaries) |->
        Slice(db.payload, db.line_boundaries[i][1], db.line_boundaries[i][2])]

\* Unterminated::next over the whole iterator: the iterator ends at the
\* first line equal to ".\r\n"; every earlier line loses its last two bytes.
UnterminatedStop(lines) ==
    LET hits == {i \in 1..Len(lines) : lines[i] = <<DOT, CR, LF>>}
    IN  IF hits = {} THEN Len(lines) + 1
        ELSE CHOOSE i \in hits : \A j \in hits : i <= j

\* A strip that removes the LF and leaves the CR.
StripOne(line) == SubSeq(line, 1, Len(line) - 1)

StripTwo(line) == SubSeq(line, 1, Len(line) - 2)

DataBlocksUnterminated(db) ==
    LET lines == DataBlocksLines(db)
    IN  [i \in 1..(UnterminatedStop(lines) - 1) |-> StripTwo(lines[i])]

\* ------------------------------------------------------- raw/connection.rs
\* ConnectionConfig: first_line_buf_size and data_blocks_buf_size, the sizes
\* reset_buffers truncates the reusable buffers to.
FirstLineBufSize == 3
DataBlocksBufSize == 4

\* An I/O fault (a read timeout, a reset) is injected into at most one
\* read_until call of a read: the call numbered fault fails (0: no fault;
\* the calls of a read are numbered from 1).

\* The bytes one BufRead::read_until(b'\n', ..) call can take from the unread
\* stream s: through the first LF, or everything when there is no LF.
UpToLF(s) ==
    LET hits == {i \in 1..Len(s) : s[i] = LF}
    IN  IF hits = {} THEN s
        ELSE SubSeq(s, 1, CHOOSE i \in hits : \A j \in hits : i <= j)

HasLF(line) == line # <<>> /\ line[Len(line)] = LF

\* A read_until that takes the end of the stream for "nothing yet" and
\* tries again without end.
read_until_waiting(s, eof, fault, callno) ==
    IF fault = callno THEN [status |-> "io", taken |-> <<>>, rest |-> s]
    ELSE IF HasLF(UpToLF(s))
    THEN [status |-> "ok", taken |-> UpToLF(s), rest |-> SliceFrom(s, Len(UpToLF(s)))]
    ELSE [status |-> "block", taken |-> <<>>, rest |-> s]

\* A read_until that throws away what the stream holds behind the line it
\* takes.
read_until_draining(s, eof, fault, callno) ==
    IF fault = callno THEN [status |-> "io", taken |-> <<>>, rest |-> s]
    ELSE IF HasLF(UpToLF(s)) \/ eof
    THEN [status |-> "ok", taken |-> UpToLF(s), rest |-> <<>>]
    ELSE [status |-> "block", taken |-> <<>>, rest |-> s]

\* BufRead::read_until(b'\n', buffer) on the unread stream s.  It appends what
\* it takes to the buffer.  Without an LF it returns at end of file only
\* (Ok, possibly with zero bytes) and otherwise waits for the peer: "block".
\* A failing call fails in fill_buf: at once when a whole line is there, and
\* after it appended the bytes of an unfinished line otherwise.
read_until(s, eof, fault, callno) ==
    LET line == UpToLF(s)
        part == IF HasLF(line) THEN <<>> ELSE line
    IN  IF fault = callno
        THEN [status |-> "io", taken |-> part, rest |-> SliceFrom(s, Len(part))]
        ELSE IF HasLF(line)
        THEN [status |-> "ok", taken |-> line, rest |-> SliceFrom(s, Len(line))]
        ELSE IF eof
        THEN [status |-> "ok", taken |-> line, rest |-> <<>>]
        ELSE [status |-> "block", taken |-> <<>>, rest |-> s]

\* A conversion that reads the digits in the wrong order.
CodeU16Reversed(code) == (code[3] - 48) * 100 + (code[2] - 48) * 10 + (code[1] - 48)

\* u16::from_str of the three digit bytes of a parsed code.
CodeU16(code) == (code[1] - 48) * 100 + (code[2] - 48) * 10 + (code[3] - 48)

\* read_initial_response: one read_until into the buffer, then parse_first_line
\* of the whole buffer; a parse failure becomes an io::Error of kind InvalidData.
read_initial_response(s, eof, fault, buffer) ==
    LET r   == read_until(s, eof, fault, 1)
        buf == buffer \o r.taken
        p   == parse_first_line(buf)
        out(st, kind, code) ==
            [status |-> st, kind |-> kind, stream |-> r.rest, buffer |-> buf, code |-> code]
    IN  IF r.status = "block" THEN out("block", "", ResponseCodeFrom(0))
        ELSE IF r.status = "io" THEN out("err", "Fault", ResponseCodeFrom(0))
        ELSE IF ~p.ok THEN out("err", "InvalidData", ResponseCodeFrom(0))
        ELSE out("ok", "", ResponseCodeFrom(CodeU16(p.code)))

\* A boundary that ends at the line's content, dropping the terminator.
LineBoundaryOfContent(read_head, bytes_read) == <<read_head, read_head + bytes_read - 2>>

\* line_boundaries.push((read_head, read_head + bytes_read))
LineBoundary(read_head, bytes_read) == <<read_head, read_head + bytes_read>>

\* read_head += bytes_read
AdvanceReadHead(read_head, bytes_read) == read_head + bytes_read

\* read_data_blocks: the loop, one iteration per call.  Each iteration reads
\* one line onto the end of the buffer, parses buffer[read_head..], records
\* (read_head, read_head + bytes_read) and stops at the end-of-data-block line.
RECURSIVE read_data_blocks_loop(_, _, _, _, _, _, _)
read_data_blocks_loop(s, eof, fault, buffer, line_boundaries, read_head, callno) ==
    LET r          == read_until(s, eof, fault, callno)
        buf        == buffer \o r.taken
        bytes_read == Len(r.taken)
        p          == parse_data_block_line(SliceFrom(buf, read_head))
        lbs        == Append(line_boundaries, LineBoundary(read_head, bytes_read))
        out(st, kind, b, l) ==
            [status |-> st, kind |-> kind, stream |-> r.rest, buffer |-> b,
             line_boundaries |-> l]
    IN  IF r.status = "block" THEN out("block", "", buf, line_boundaries)
        ELSE IF r.status = "io" THEN out("err", "Fault", buf, line_boundaries)
        ELSE IF ~p.ok THEN out("err", "InvalidData", buf, line_boundaries)
        ELSE IF is_end_of_datablock(p.line) THEN out("ok", "", buf, lbs)
        ELSE read_data_blocks_loop(r.rest, eof, fault, buf, lbs,
                                   AdvanceReadHead(read_head, bytes_read), callno + 1)

read_data_blocks(s, eof, fault, buffer) ==
    read_data_blocks_loop(s, eof, fault, buffer, <<>>, 0, 2)

\* ------------------------------------------------------ raw/compression.rs
\* b"[COMPRESS=GZIP]"
Marker == <<91, 67, 79, 77, 80, 82, 69, 83, 83, 61, 71, 90, 73, 80, 93>>

\* slice::ends_with
EndsWith(b, suffix) ==
    Len(b) >= Len(suffix) /\ SubSeq(b, Len(b) - Len(suffix) + 1, Len(b)) = suffix

\* A use_decoder that looks at the configuration only.
UseDecoderAlways(first_line) == TRUE

\* Compression::use_decoder for XFeature:
\* first_line.ends_with(b"[COMPRESS=GZIP]\r\n")
use_decoder(first_line) == EndsWith(first_line, Marker \o CRLF)

\* match self.config.compression { Some(c) if c.use_decoder(..) => decoder,
\* _ => Passthrough }
WrapsWithDecoder(comp, first_line) == comp = "XFeature" /\ use_decoder(first_line)

\* A zlib stream, as far as the engine can tell one from another: a header
\* byte, one byte above 127 for every byte of the plain text, and an end
\* mark the inflater stops at.  Plain bytes are below 128.
ZHeader == 120
ZEnd == 0
ZShift == 128

ZByte(b) == b + ZShift

Deflate(plain) == <<ZHeader>> \o [i \in 1..Len(plain) |-> ZByte(plain[i])] \o <<ZEnd>>

\* How far a ZlibDecoder gets in the raw bytes s that are there for it: it
\* takes the header, then data bytes up to and with the end mark, and stops
\* early where s ends or at a byte that is no part of a zlib stream.
RECURSIVE ZScan(_, _)
ZScan(s, i) ==
    IF i > Len(s) THEN [taken |-> Len(s), ended |-> FALSE, corrupt |-> FALSE]
    ELSE IF i = 1
    THEN IF s[1] = ZHeader THEN ZScan(s, 2)
         ELSE [taken |-> 0, ended |-> FALSE, corrupt |-> TRUE]
    ELSE IF s[i] = ZEnd THEN [taken |-> i, ended |-> TRUE, corrupt |-> FALSE]
    ELSE IF s[i] >= ZShift THEN ZScan(s, i + 1)
    ELSE [taken |-> i - 1, ended |-> FALSE, corrupt |-> TRUE]

\* A decoder that loses the first byte of the plain text.
InflateLosingFirst(s) ==
    LET z == ZScan(s, 1)
        n == IF z.ended THEN z.taken - 1 ELSE z.taken
    IN  [plain |-> [i \in 1..(n - 2) |-> s[i + 2] - ZShift], taken |-> z.taken,
         ended |-> z.ended, corrupt |-> z.corrupt]

\* ZlibDecoder over the raw bytes s: the plain text of the part it takes.
Inflate(s) ==
    LET z == ZScan(s, 1)
        n == IF z.ended THEN z.taken - 1 ELSE z.taken
    IN  [plain |-> [i \in 1..(n - 1) |-> s[i + 1] - ZShift], taken |-> z.taken,
         ended |-> z.ended, corrupt |-> z.corrupt]

\* read_data_blocks on Decoder::XFeature(BufReader<ZlibDecoder<&mut stream>>).
\* The decoder's BufReader fills itself from the inflater, which takes what
\* the raw stream holds for it; the lines are read from the plain text, and
\* what was inflated beyond the last line read goes with the decoder when it
\* is dropped.  A fault of the transport fails the first fill; a byte that
\* is no zlib, or the end of the raw stream inside the zlib stream, is an
\* io::Error of the inflater.
read_data_blocks_inflating(s, eof, fault, buffer) ==
    LET z  == Inflate(s)
        dr == read_data_blocks_loop(z.plain, z.ended, 0, buffer, <<>>, 0, 2)
        out(st, kind, rest, b, l) ==
            [status |-> st, kind |-> kind, stream |-> rest, buffer |-> b,
             line_boundaries |-> l]
    IN  IF fault = 2 THEN out("err", "Fault", s, buffer, <<>>)
        ELSE IF z.corrupt
        THEN out("err", "Corrupt", SliceFrom(s, z.taken), buffer, <<>>)
        ELSE IF dr.status = "block"
        THEN IF eof THEN out("err", "Corrupt", <<>>, dr.buffer, dr.line_boundaries)
             ELSE out("block", "", s, buffer, <<>>)
        ELSE out(dr.status, dr.kind, SliceFrom(s, z.taken), dr.buffer, dr.line_boundaries)

\* A read_response that does not truncate its buffers on entry.
KeepBuffer(buf) == buf

\* self.first_line_buf.truncate(0); self.data_blocks_buf.truncate(0)
TruncateZero(buf) == <<>>

\* Vec::truncate(len)
Truncate(buf, len) == SubSeq(buf, 1, Min(Len(buf), len))

\* match (is_multiline, resp_code.is_multiline()): the arm that reads data
\* blocks is (Some(true), _) | (_, true).
ReadsDataBlocks(is_multiline, code) ==
    is_multiline = "SomeTrue" \/ is_multiline_code(code)

\* What read_response returns when a step failed or is still waiting.
ReadFailed(st, kind, stream, b1, b2) ==
    [status |-> st, err |-> IF st = "err" THEN "Io" ELSE "", kind |-> kind,
     stream |-> stream, first_line_buf |-> b1, data_blocks_buf |-> b2,
     resp |-> NoResponse]

\* read_response once the data blocks were read with outcome dr: the
\* response is built from clones of the buffers, then reset_buffers.
AfterDataBlocks(ir, dr) ==
    IF dr.status # "ok"
    THEN ReadFailed(dr.status, dr.kind, dr.stream, ir.buffer, dr.buffer)
    ELSE [status |-> "ok", err |-> "", kind |-> "", stream |-> dr.stream,
          first_line_buf |-> Truncate(ir.buffer, FirstLineBufSize),
          data_blocks_buf |-> Truncate(dr.buffer, DataBlocksBufSize),
          resp |-> [code |-> ir.code, first_line |-> ir.buffer,
                    data_blocks |->
                        [present |-> TRUE, payload |-> dr.buffer,
                         line_boundaries |-> dr.line_boundaries]]]

\* read_response once the first line was read with outcome ir: the match
\* on (is_multiline, resp_code.is_multiline()) and on config.compression.
AfterFirstLine(ir, eof, db0, is_multiline, fault, comp) ==
    IF ir.status # "ok"
    THEN ReadFailed(ir.status, ir.kind, ir.stream, ir.buffer, db0)
    ELSE IF ReadsDataBlocks(is_multiline, ir.code)
    THEN AfterDataBlocks(ir,
             IF WrapsWithDecoder(comp, ir.buffer)
             THEN read_data_blocks_inflating(ir.stream, eof, fault, db0)
             ELSE read_data_blocks(ir.stream, eof, fault, db0))
    ELSE [status |-> "ok", err |-> "", kind |-> "", stream |-> ir.stream,
          first_line_buf |-> Truncate(ir.buffer, FirstLineBufSize),
          data_blocks_buf |-> Truncate(db0, DataBlocksBufSize),
          resp |-> [code |-> ir.code, first_line |-> ir.buffer,
                    data_blocks |-> NoDataBlocks]]

\* NntpConnection::read_response on a connection whose unread stream is s,
\* whose reusable buffers hold flb and dbb and whose config.compression is
\* comp.  The outcome carries the stream
\* and buffers the call leaves behind and the Result it returns.
read_response_cfg(s, eof, flb, dbb, is_multiline, fault, comp) ==
    AfterFirstLine(read_initial_response(s, eof, fault, TruncateZero(flb)),
                   eof, TruncateZero(dbb), is_multiline, fault, comp)

\* NntpConnection::read_response on a connection of the default
\* configuration, which has no compression.
read_response(s, eof, flb, dbb, is_multiline, fault) ==
    read_response_cfg(s, eof, flb, dbb, is_multiline, fault, "None")

\* impl From<std::io::Error> for Error (#[from]): every io::Error, whatever
\* its kind, becomes Error::Io.
ErrorFrom(kind) == "Io"

\* What a handler returns: Ok(RawResponse), Ok(usize) or Err(Error).
NoResult == [tag |-> "none", err |-> "", kind |-> "", bytes |-> 0, resp |-> NoResponse]
OkResponse(resp) == [tag |-> "Ok", err |-> "", kind |-> "", bytes |-> 0, resp |-> resp]
OkBytes(n) == [tag |-> "Ok", err |-> "", kind |-> "", bytes |-> n, resp |-> NoResponse]
ErrResult(kind) ==
    [tag |-> "Err", err |-> ErrorFrom(kind), kind |-> kind, bytes |-> 0, resp |-> NoResponse]

\* How the transport treats the two Write::write calls and the flush of one
\* send_bytes: all accepted, one byte fewer accepted by the first or by the
\* second write, or an error from one of the three calls.
SendOutcomes == {"ok", "short1", "short2", "err1", "err2", "errflush"}

AllButLast(b) == SubSeq(b, 1, Len(b) - 1)

\* NntpConnection::send_bytes: write(command)? + write(b"\r\n")?, flush()?.
send_bytes(command, so) ==
    LET w1    == IF so = "short1" THEN AllButLast(command) ELSE command
        w2    == IF so = "short2" THEN AllButLast(CRLF) ELSE CRLF
        bytes == Len(w1) + Len(w2)
    IN  IF so = "err1" THEN [ok |-> FALSE, wire |-> <<>>, bytes |-> 0]
        ELSE IF so = "err2" THEN [ok |-> FALSE, wire |-> w1, bytes |-> 0]
        ELSE IF so = "errflush" THEN [ok |-> FALSE, wire |-> w1 \o w2, bytes |-> 0]
        ELSE [ok |-> TRUE, wire |-> w1 \o w2, bytes |-> bytes]

\* NntpConnection::send: send_bytes(command.to_string().as_bytes()).  A
\* command is kept as the bytes its to_string renders.
send(command, so) == send_bytes(command, so)

\* One entry of the log of the calls a handler made: a send of a command and
\* whether it returned Ok, or a read_response with its is_multiline argument.
SendCall(c, ok) == [call |-> "send", command |-> c, is_multiline |-> "", ok |-> ok]
ReadCall(m, ok) == [call |-> "read_response", command |-> <<>>, is_multiline |-> m, ok |-> ok]

\* The outcome of a handler that reads: the connection it leaves behind, the
\* Result it returns and the calls it made, in order.
ReadOutcome(rr, wire, sent, m) ==
    [status |-> rr.status, stream |-> rr.stream,
     first_line_buf |-> rr.first_line_buf, data_blocks_buf |-> rr.data_blocks_buf,
     wire |-> wire,
     result |-> IF rr.status = "ok" THEN OkResponse(rr.resp) ELSE ErrResult(rr.kind),
     calls |-> sent \o <<ReadCall(m, rr.status = "ok")>>]

\* The outcome of a handler whose send failed: self.send(command)? returns.
SendFailed(s, flb, dbb, wire, c) ==
    [status |-> "err", stream |-> s, first_line_buf |-> flb, data_blocks_buf |-> dbb,
     wire |-> wire, result |-> ErrResult("Fault"), calls |-> <<SendCall(c, FALSE)>>]

\* NntpConnection::read_response_auto
read_response_auto(s, eof, flb, dbb, fault) ==
    read_response(s, eof, flb, dbb, "None", fault)

\* A command that reads a response whether or not its send failed.
command_ignoring_send_error(s, eof, flb, dbb, c, so, fault) ==
    LET w == send(c, so)
    IN  ReadOutcome(read_response_auto(s, eof, flb, dbb, fault),
                    w.wire, <<SendCall(c, w.ok)>>, "None")

\* NntpConnection::command: self.send(command)?; self.read_response_auto()?
command(s, eof, flb, dbb, c, so, fault) ==
    LET w == send(c, so)
    IN  IF ~w.ok THEN SendFailed(s, flb, dbb, w.wire, c)
        ELSE ReadOutcome(read_response_auto(s, eof, flb, dbb, fault),
                         w.wire, <<SendCall(c, TRUE)>>, "None")

SomeBool(b) == IF b THEN "SomeTrue" ELSE "SomeFalse"

\* NntpConnection::command_multiline:
\* self.send(command)?; self.read_response(Some(is_multiline))?
command_multiline(s, eof, flb, dbb, c, b, so, fault) ==
    LET w == send(c, so)
    IN  IF ~w.ok THEN SendFailed(s, flb, dbb, w.wire, c)
        ELSE ReadOutcome(read_response(s, eof, flb, dbb, SomeBool(b), fault),
                         w.wire, <<SendCall(c, TRUE)>>, SomeBool(b))

\* ------------------------------------------------------- the state machine
VARIABLES
    stream,           \* bytes the peer has delivered and the connection has not read
    eof,              \* the peer has closed its side: no byte will follow
    nchunks,          \* how many chunks the peer has written so far
    first_line_buf,   \* NntpConnection::first_line_buf
    data_blocks_buf,  \* NntpConnection::data_blocks_buf
    wire,             \* bytes the last handler put on the transport
    result,           \* what the last handler returned
    last,             \* the last handler: its name, its calls, what it met and took
    pin,              \* the byte slice handed to a parser of raw/parse.rs
    pfn,              \* the parser applied to it ("none": not yet)
    pout,             \* what the parser returned
    conn,             \* "unconnected", "open" (connect returned it) or "none"
    compression,      \* ConnectionConfig::compression: "None" or "XFeature"
    first_line_cap,   \* the capacity of first_line_buf
    data_blocks_cap,  \* the capacity of data_blocks_buf
    decoded,          \* what the last typed decoder returned
    held,             \* a RawResponse the caller keeps from an earlier read
    post,             \* a post::Builder, the calls made on it and what encode gave
    client,           \* the client function in progress and what it returned
    cmd,              \* the command value handed to send last
    config            \* the ClientConfig that connect resolves

connVars == <<stream, eof, nchunks, first_line_buf, data_blocks_buf, wire, result, last>>

parseVars == <<pin, pfn, pout>>

cfgVars == <<conn, compression>>

capVars == <<first_line_cap, data_blocks_cap>>

appVars == <<post, client, cmd, config>>

extVars == <<cfgVars, capVars, decoded, held, appVars>>

vars == <<connVars, parseVars, extVars>>

\* Bounds of the model.
MaxChunks == 4
MaxCmdChunks == 3
MaxCodeLen == 4
MaxTailLen == 4

\* What the peer may write in one piece: the status lines "200 x" (a
\* single-line kind), "101 x" (a multi-line kind) and "299 " (an unknown
\* code), each of them also a well-formed data-block line when it comes
\* inside a data block; the data-block lines "." and ".."; and "x" ended by
\* a bare LF, which is no line of the wire grammar.
ServerChunks ==
    { <<50, 48, 48, SP, 120, CR, LF>>,
      <<49, 48, 49, SP, 120, CR, LF>>,
      <<50, 57, 57, SP, CR, LF>>,
      <<DOT, CR, LF>>,
      <<DOT, DOT, CR, LF>>,
      <<120, LF>> }

\* The peer's pieces where commands are sent: "200 x", "101 x" and ".".
CmdChunks ==
    { <<50, 48, 48, SP, 120, CR, LF>>,
      <<49, 48, 49, SP, 120, CR, LF>>,
      <<DOT, CR, LF>> }

\* Commands, as the bytes to_string renders: "QUIT" and "DATE".
Commands == { <<81, 85, 73, 84>>, <<68, 65, 84, 69>> }

Overrides == {"None", "SomeTrue", "SomeFalse"}

\* No fault, a fault in the read of the status line (call 1), a fault in the
\* read of the first data-block line (call 2).
Faults == {0, 1, 2}

\* Where commands are sent: no fault, or a fault in the read of the status line.
CmdFaults == {0, 1}

\* The last handler: its name and arguments, the calls it made, whether it
\* found bytes of an earlier call in the reusable buffers, and the bytes it
\* took from the stream.
NoLast ==
    [op |-> "none", command |-> <<>>, is_multiline |-> "", calls |-> <<>>,
     stale_first_line |-> FALSE, stale_data_blocks |-> FALSE, consumed |-> <<>>]

\* IResult of a parser: the fields of the parsers' outputs side by side.
NoParse == [ok |-> FALSE, rest |-> <<>>, code |-> <<>>, data |-> <<>>, line |-> <<>>]

\* Vec::with_capacity(n)
WithCapacity(n) == n

\* Vec::shrink_to_fit on a buffer: the capacity becomes the length.
ShrinkToFit(buf) == Len(buf)

\* Vec::reserve as extend_from_slice calls it when the length is to become
\* len: nothing when it fits, else the larger of twice the capacity and len,
\* and at least 8 bytes.
Reserve(cap, len) ==
    IF len <= cap THEN cap
    ELSE IF 2 * cap >= len /\ 2 * cap >= 8 THEN 2 * cap
    ELSE IF len >= 8 THEN len ELSE 8

\* The capacity after read_until appended the lines of buf, one by one, to
\* a buffer of capacity cap that was empty: done lines are already in.
RECURSIVE ReserveEach(_, _, _)
ReserveEach(cap, done, buf) ==
    IF done >= Len(buf) THEN cap
    ELSE LET n == done + Len(UpToLF(SliceFrom(buf, done)))
         IN  ReserveEach(Reserve(cap, n), n, buf)

\* A RawResponse whose bytes are references into the reusable buffers.
Borrowed == FALSE

\* self.first_line_buf.clone() and self.data_blocks_buf.clone(): the
\* RawResponse owns its bytes.
Owned == TRUE

\* The response the caller keeps: none yet.
NoHeld == [kept |-> FALSE, owned |-> Owned, resp |-> NoResponse]

\* What a typed decoder returned: nothing yet.  A decoder fills the fields of
\* its type; err and field say which Error::Deserialization it returned.
NoDecoded ==
    [fn |-> "none", ok |-> FALSE, err |-> "", field |-> "",
     number |-> <<>>, low |-> <<>>, high |-> <<>>, name |-> <<>>, message_id |-> <<>>,
     headers |-> <<>>, body |-> <<>>, line_boundaries |-> <<>>,
     file |-> "", entries |-> [n \in {} |-> <<>>]]

\* post::Builder::new(): no header, an empty body; nothing was called on it
\* and nothing was encoded.
NoPost ==
    [headers |-> [n \in {} |-> {}], body |-> <<>>, ops |-> <<>>,
     encoded |-> FALSE, buf |-> <<>>]

\* No client function was called.  group and capabilities are what an
\* NntpClient caches (an Option as a sequence), build the definitions of
\* Group and Capabilities the crate is built with: those of
\* types/response/mod.rs or those of group.rs and capabilities.rs.
NoClient ==
    [op |-> "none", pc |-> "idle", tag |-> "none", err |-> "",
     code |-> ResponseCodeFrom(0), resp |-> NoResponse, sent |-> <<>>,
     replies |-> <<>>, desired |-> 0,
     group |-> <<>>, capabilities |-> <<>>, build |-> "mod.rs"]

\* No command value was handed to send.
NoCommand == [verb |-> "none", field |-> <<>>, wildmat |-> <<>>]

\* impl Default for ClientConfig: no credentials, no group.  An Option is
\* kept as the sequence of what it holds: <<>> is None, <<x>> is Some(x).
DefaultConfig == [authinfo |-> <<>>, group |-> <<>>]

\* A connection as NntpConnection::connect builds it, before its first read:
\* empty buffers, nothing read, nothing written.
InitConn ==
    /\ stream = <<>>
    /\ eof = FALSE
    /\ nchunks = 0
    /\ first_line_buf = <<>>
    /\ data_blocks_buf = <<>>
    /\ wire = <<>>
    /\ result = NoResult
    /\ last = NoLast
    /\ conn = "open"
    /\ compression = "None"
    /\ first_line_cap = WithCapacity(FirstLineBufSize)
    /\ data_blocks_cap = WithCapacity(DataBlocksBufSize)
    /\ decoded = NoDecoded
    /\ held = NoHeld
    /\ post = NoPost
    /\ client = NoClient
    /\ cmd = NoCommand
    /\ config = DefaultConfig

Init ==
    /\ InitConn
    /\ pin = <<>>
    /\ pfn = "none"
    /\ pout = NoParse

\* The peer writes one more chunk.
ServerWrite(chunk) ==
    /\ ~eof
    /\ nchunks < MaxChunks
    /\ stream' = stream \o chunk
    /\ nchunks' = nchunks + 1
    /\ UNCHANGED <<eof, first_line_buf, data_blocks_buf, wire, result, last>>
    /\ UNCHANGED parseVars
    /\ UNCHANGED extVars

\* The peer writes one more chunk where commands are sent.
CmdServerWrite(chunk) ==
    /\ ~eof
    /\ nchunks < MaxCmdChunks
    /\ stream' = stream \o chunk
    /\ nchunks' = nchunks + 1
    /\ UNCHANGED <<eof, first_line_buf, data_blocks_buf, wire, result, last>>
    /\ UNCHANGED parseVars
    /\ UNCHANGED extVars

\* The peer closes its side.
ServerClose ==
    /\ ~eof
    /\ eof' = TRUE
    /\ UNCHANGED <<stream, nchunks, first_line_buf, data_blocks_buf, wire, result, last>>
    /\ UNCHANGED parseVars
    /\ UNCHANGED extVars

\* The bytes a handler took from the stream that held s before it ran.
Consumed(s, rest) == SubSeq(s, 1, Len(s) - Len(rest))

\* A handler that reads returns once the peer has delivered enough to decide
\* its outcome o (status "block": it is still waiting); it leaves the
\* connection as o says.
Returns(op, c, m, o) ==
    /\ o.status # "block"
    /\ stream' = o.stream
    /\ first_line_buf' = o.first_line_buf
    /\ data_blocks_buf' = o.data_blocks_buf
    /\ wire' = o.wire
    /\ result' = o.result
    /\ first_line_cap' =
           IF o.status = "ok" THEN ShrinkToFit(o.first_line_buf)
           ELSE Reserve(first_line_cap, Len(o.first_line_buf))
    /\ data_blocks_cap' =
           IF o.status = "ok" THEN ShrinkToFit(o.data_blocks_buf)
           ELSE ReserveEach(data_blocks_cap, 0, o.data_blocks_buf)
    /\ last' = [op |-> op, command |-> c, is_multiline |-> m, calls |-> o.calls,
                stale_first_line |-> first_line_buf # <<>>,
                stale_data_blocks |-> data_blocks_buf # <<>>,
                consumed |-> Consumed(stream, o.stream)]

ReadResponse(m, fault) ==
    /\ UNCHANGED <<eof, nchunks, pin, pfn, pout, conn, compression, decoded, held, appVars>>
    /\ Returns("read_response", <<>>, m,
               ReadOutcome(
                   read_response_cfg(stream, eof, first_line_buf, data_blocks_buf, m,
                                     fault, compression),
                   <<>>, <<>>, m))

ReadResponseAuto(fault) ==
    /\ UNCHANGED <<eof, nchunks, pin, pfn, pout, conn, compression, decoded, held, appVars>>
    /\ Returns("read_response_auto", <<>>, "",
               ReadOutcome(
                   read_response_auto(stream, eof, first_line_buf, data_blocks_buf, fault),
                   <<>>, <<>>, "None"))

Command(c, so, fault) ==
    /\ UNCHANGED <<eof, nchunks, pin, pfn, pout, conn, compression, decoded, held, appVars>>
    /\ Returns("command", c, "",
               command(stream, eof, first_line_buf, data_blocks_buf, c, so, fault))

CommandMultiline(c, b, so, fault) ==
    /\ UNCHANGED <<eof, nchunks, pin, pfn, pout, conn, compression, decoded, held, appVars>>
    /\ Returns("command_multiline", c, SomeBool(b),
               command_multiline(stream, eof, first_line_buf, data_blocks_buf,
                                 c, b, so, fault))

\* What a send of the bytes c leaves on the connection.
SendReturns(c, so) ==
    LET w == send(c, so)
    IN  /\ wire' = w.wire
        /\ result' = IF w.ok THEN OkBytes(w.bytes) ELSE ErrResult("Fault")
        /\ last' = [NoLast EXCEPT !.op = "send", !.command = c,
                                  !.calls = <<SendCall(c, w.ok)>>]
        /\ UNCHANGED <<stream, eof, nchunks, first_line_buf, data_blocks_buf>>
        /\ UNCHANGED parseVars

Send(c, so) ==
    /\ SendReturns(c, so)
    /\ UNCHANGED extVars

Next ==
    \/ \E chunk \in ServerChunks : ServerWrite(chunk)
    \/ ServerClose
    \/ \E m \in Overrides, fault \in Faults : ReadResponse(m, fault)

NextCmd ==
    \/ \E chunk \in CmdChunks : CmdServerWrite(chunk)
    \/ ServerClose
    \/ \E fault \in CmdFaults : ReadResponseAuto(fault)
    \/ \E c \in Commands, so \in SendOutcomes, fault \in CmdFaults : Command(c, so, fault)
    \/ \E c \in Commands, b \in BOOLEAN, so \in SendOutcomes, fault \in CmdFaults :
           CommandMultiline(c, b, so, fault)
    \/ \E c \in Commands, so \in SendOutcomes : Send(c, so)

Spec == Init /\ [][Next]_vars

SpecCmd == Init /\ [][NextCmd]_vars

\* ---------------------------------------------------- the parsers, applied
SeqsUpTo(S, n) == UNION {[1..k -> S] : k \in 0..n}

\* Inputs to the parsers: up to MaxCodeLen of the digits '0', '2' and '6',
\* then up to MaxTailLen of ' ', CR and LF (a text is made of spaces and CRs).
ParseInputs ==
    {c \o t : c \in SeqsUpTo({48, 50, 54}, MaxCodeLen),
              t \in SeqsUpTo({SP, CR, LF}, MaxTailLen)}

InitParse ==
    /\ InitConn
    /\ pin \in ParseInputs
    /\ pfn = "none"
    /\ pout = NoParse

ParseFirstLine ==
    /\ pfn = "none"
    /\ pfn' = "parse_first_line"
    /\ pout' = LET p == parse_first_line(pin)
               IN  [ok |-> p.ok, rest |-> p.rest, code |-> p.code, data |-> p.data,
                    line |-> <<>>]
    /\ UNCHANGED <<connVars, pin>>
    /\ UNCHANGED extVars

ParseDataBlockLine ==
    /\ pfn = "none"
    /\ pfn' = "parse_data_block_line"
    /\ pout' = LET p == parse_data_block_line(pin)
               IN  [ok |-> p.ok, rest |-> p.rest, code |-> <<>>, data |-> <<>>,
                    line |-> p.line]
    /\ UNCHANGED <<connVars, pin>>
    /\ UNCHANGED extVars

NextParse ==
    \/ ParseFirstLine
    \/ ParseDataBlockLine

SpecParse == InitParse /\ [][NextParse]_vars

\* ------------------------------------------------------------ properties
\* The last handler returned Ok(RawResponse).
HasResponse ==
    /\ result.tag = "Ok"
    /\ last.calls # <<>>
    /\ last.calls[Len(last.calls)].call = "read_response"

\* The is_multiline argument of the last read_response call.
LastReadArg == last.calls[Len(last.calls)].is_multiline

HasDataBlocks == HasResponse /\ result.resp.data_blocks.present

RECURSIVE Flatten(_)
Flatten(seqs) == IF seqs = <<>> THEN <<>> ELSE Head(seqs) \o Flatten(Tail(seqs))

\* The lines of a byte sequence, each through its LF (a last line may lack it).
RECURSIVE SplitAtLF(_)
SplitAtLF(b) ==
    IF b = <<>> THEN <<>>
    ELSE <<UpToLF(b)>> \o SplitAtLF(SliceFrom(b, Len(UpToLF(b))))

\* The last call of the last handler was a read_response, failed or not.
ReadReturned ==
    /\ last.calls # <<>>
    /\ last.calls[Len(last.calls)].call = "read_response"

\* C1: a read_response returns what a connection with empty buffers returns
\* when its stream delivers exactly the bytes this call took, and the
\* first_line and payload of a returned response are, together, exactly those
\* bytes: no byte that an earlier call, successful or failed, left in the
\* reusable buffers shows in the outcome.
C1_NoStaleBytes ==
    ReadReturned =>
        /\ \E fault \in Faults :
               LET fresh == ReadOutcome(
                                read_response(last.consumed, TRUE, <<>>, <<>>,
                                              LastReadArg, fault),
                                <<>>, <<>>, LastReadArg)
               IN  fresh.result = result /\ fresh.stream = <<>>
        /\ result.tag = "Ok" =>
               result.resp.first_line \o result.resp.data_blocks.payload = last.consumed

\* A response with data blocks was read while both reusable buffers still
\* held bytes of an earlier call.
C1_Witness ==
    /\ HasDataBlocks
    /\ last.stale_first_line
    /\ last.stale_data_blocks

\* The multi-line decision as documented: the override when one is given,
\* the classification of the code otherwise.
Decision(m, code) == IF m = "None" THEN is_multiline_code(code) ELSE m = "SomeTrue"

\* C2: a returned response has data blocks if and only if the decision is
\* true, the decision being the caller's override when one is given and the
\* classification of the code only when it is None.
C2_OverrideDecides ==
    HasResponse =>
        (result.resp.data_blocks.present <=> Decision(LastReadArg, result.resp.code))

\* C3: in returned data blocks the boundaries are in stream order, start at
\* 0, each start is the previous end, every start is below its end, the last
\* end is the payload length, and the spans concatenate to the payload.
C3_BoundariesTile ==
    HasDataBlocks =>
        LET db == result.resp.data_blocks
            lb == db.line_boundaries
            n  == Len(lb)
        IN  /\ n >= 1
            /\ lb[1][1] = 0
            /\ \A i \in 2..n : lb[i][1] = lb[i - 1][2]
            /\ \A i \in 1..n : lb[i][1] < lb[i][2]
            /\ lb[n][2] = Len(db.payload)
            /\ Flatten([i \in 1..n |-> Slice(db.payload, lb[i][1], lb[i][2])]) = db.payload

\* Data blocks of at least three lines were returned.
C3_Witness == HasDataBlocks /\ Len(result.resp.data_blocks.line_boundaries) >= 3

EndsWithCRLF(line) ==
    Len(line) >= 2 /\ line[Len(line) - 1] = CR /\ line[Len(line)] = LF

\* C4: in returned data blocks every recorded line ends with CRLF, the last
\* recorded line is "." CRLF and no earlier recorded line is.
C4_StopsAtFirstDotLine ==
    HasDataBlocks =>
        LET db    == result.resp.data_blocks
            lb    == db.line_boundaries
            n     == Len(lb)
            ln(i) == Slice(db.payload, lb[i][1], lb[i][2])
        IN  /\ n >= 1
            /\ \A i \in 1..n : EndsWithCRLF(ln(i))
            /\ ln(n) = <<DOT, CR, LF>>
            /\ \A i \in 1..(n - 1) : ln(i) # <<DOT, CR, LF>>

\* Data blocks were returned in which the line ".." comes before the
\* terminator line.
C4_Witness ==
    /\ HasDataBlocks
    /\ \E i \in 1..Len(result.resp.data_blocks.line_boundaries) :
           LET lb == result.resp.data_blocks.line_boundaries[i]
           IN  Slice(result.resp.data_blocks.payload, lb[1], lb[2]) = <<DOT, DOT, CR, LF>>

\* C5: for returned data blocks lines() yields the lines of the payload in
\* order, each with its CRLF, the "." line last; unterminated() yields the
\* lines before that last line, each without its CRLF, and never ".".
C5_LinesAndUnterminated ==
    HasDataBlocks =>
        LET db == result.resp.data_blocks
            L  == DataBlocksLines(db)
            U  == DataBlocksUnterminated(db)
        IN  /\ L = SplitAtLF(db.payload)
            /\ L[Len(L)] = <<DOT, CR, LF>>
            /\ Len(U) = Len(L) - 1
            /\ \A i \in 1..Len(U) : U[i] \o CRLF = L[i]
            /\ \A i \in 1..Len(U) : U[i] # <<DOT>>

\* Data blocks with two lines before the terminator line were returned.
C5_Witness == HasDataBlocks /\ Len(DataBlocksUnterminated(result.resp.data_blocks)) = 2

\* C6: a returned first_line is three digits, the first in 1..5, a space,
\* text and CRLF, with its only CRLF at its end, and the code is the number
\* the three digits spell, for known and unknown codes alike.
C6_FirstLineForm ==
    HasResponse =>
        LET fl == result.resp.first_line
        IN  /\ Len(fl) >= 6
            /\ fl[1] \in 49..53
            /\ fl[2] \in 48..57
            /\ fl[3] \in 48..57
            /\ fl[4] = SP
            /\ FirstCRLF(fl) = Len(fl) - 1
            /\ U16From(result.resp.code)
                   = (fl[1] - 48) * 100 + (fl[2] - 48) * 10 + (fl[3] - 48)

\* A response with a code the table does not know was returned.
C6_Witness == HasResponse /\ ~result.resp.code.known /\ U16From(result.resp.code) = 299

\* C9: a line that violates the wire grammar makes read_response return the
\* Parse error, not the Io error of read and write faults.
C9_GrammarViolationIsParse ==
    (result.tag = "Err" /\ result.kind = "InvalidData") => result.err = "Parse"

\* b is d1 d2 d3 SP text CRLF with d1 in 1..5, d2 and d3 digits and no CRLF
\* in text.
WellFormedFirstLine(b) ==
    /\ Len(b) >= 6
    /\ b[1] \in 49..53
    /\ b[2] \in 48..57
    /\ b[3] \in 48..57
    /\ b[4] = SP
    /\ EndsWithCRLF(b)
    /\ \A i \in 5..(Len(b) - 3) : ~(b[i] = CR /\ b[i + 1] = LF)

\* b starts with exactly three digits, the first in 1..5, and a space.
HasCodeAndSpace(b) ==
    /\ Len(b) >= 4
    /\ b[1] \in 49..53
    /\ b[2] \in 48..57
    /\ b[3] \in 48..57
    /\ b[4] = SP

\* C7: parse_first_line succeeds on every d1 d2 d3 SP text CRLF, returns the
\* three digit bytes as code and text as data and leaves no input; it fails
\* on every input that lacks the terminating CRLF or does not start with
\* three such digits and a space.
C7_ParseFirstLine ==
    pfn = "parse_first_line" =>
        /\ WellFormedFirstLine(pin) =>
               /\ pout.ok
               /\ pout.code = SubSeq(pin, 1, 3)
               /\ pout.data = SubSeq(pin, 5, Len(pin) - 2)
               /\ pout.rest = <<>>
        /\ (~EndsWithCRLF(pin) \/ ~HasCodeAndSpace(pin)) => ~pout.ok

\* parse_first_line was applied to "262 " CR CRLF, whose text is a lone CR.
C7_Witness ==
    /\ pfn = "parse_first_line"
    /\ pin = <<50, 54, 50, SP, CR, CR, LF>>
    /\ pout.ok

\* Some byte follows the first CRLF of b.
ByteAfterFirstCRLF(b) ==
    \E i \in 1..(Len(b) - 2) : b[i] = CR /\ b[i + 1] = LF

\* C8: parse_first_line and parse_data_block_line fail on every input that
\* holds a byte after its first CRLF.
C8_NoPrefixMatch ==
    (pfn # "none" /\ ByteAfterFirstCRLF(pin)) => ~pout.ok

\* parse_data_block_line was applied to two lines, CRLF CRLF.
C8_Witness ==
    /\ pfn = "parse_data_block_line"
    /\ pin = <<CR, LF, CR, LF>>
    /\ ~pout.ok

\* The calls of a handler that sends command c and then reads with the
\* is_multiline argument m: one send of c and, only if that send returned Ok,
\* one read_response(m) after it; nothing else.
OneSendThenOneRead(calls, c, m) ==
    /\ Len(calls) \in {1, 2}
    /\ calls[1].call = "send"
    /\ calls[1].command = c
    /\ calls[1].ok <=> Len(calls) = 2
    /\ Len(calls) = 2 =>
           /\ calls[2].call = "read_response"
           /\ calls[2].is_multiline = m

\* C10: command(c) makes one send of c and then, unless the send failed, one
\* read_response(None); command_multiline(c, b) makes one send of c and then,
\* unless the send failed, one read_response(Some(b)); a failed send is
\* returned as the error, and no byte beyond c and its CRLF is written.
C10_OneSendThenOneRead ==
    /\ last.op = "command" =>
           /\ OneSendThenOneRead(last.calls, last.command, "None")
           /\ ~last.calls[1].ok => result.tag = "Err" /\ last.consumed = <<>>
           /\ Len(wire) <= Len(last.command) + 2
    /\ last.op = "command_multiline" =>
           /\ last.is_multiline \in {"SomeTrue", "SomeFalse"}
           /\ OneSendThenOneRead(last.calls, last.command, last.is_multiline)
           /\ ~last.calls[1].ok => result.tag = "Err" /\ last.consumed = <<>>
           /\ Len(wire) <= Len(last.command) + 2

\* A command whose send failed returned while a response was waiting in the
\* stream.
C10_Witness ==
    /\ last.op = "command"
    /\ ~last.calls[1].ok
    /\ stream # <<>>

\* ------------------------------------------------------------------ connect
\* How the steps of connect before its read fare: all succeed, or
\* TcpStream::connect, set_read_timeout or the TLS handshake fails.
ConnectOutcomes == {"ok", "tcp", "timeout", "tls"}

\* The error of a failed step of connect: an io::Error becomes Error::Io, a
\* failed handshake Error::TlsHandshake.
ConnectError(co) ==
    [ErrResult("Fault") EXCEPT !.err = IF co = "tls" THEN "TlsHandshake" ELSE "Io"]

\* A connect that sends a line before it reads the greeting.
connect_sending_first(s, at_eof, co, fault) ==
    IF co # "ok"
    THEN [status |-> "err", stream |-> s, first_line_buf |-> <<>>,
          data_blocks_buf |-> <<>>, wire |-> <<>>, result |-> ConnectError(co),
          calls |-> <<>>]
    ELSE ReadOutcome(read_response_auto(s, at_eof, <<>>, <<>>, fault),
                     send_bytes(<<>>, "ok").wire, <<>>, "None")

\* NntpConnection::connect: open the stream (each step returns its error
\* with `?`), build the connection with two empty buffers, then
\* conn.read_response_auto()?.  Nothing is written.
connect(s, at_eof, co, fault) ==
    IF co # "ok"
    THEN [status |-> "err", stream |-> s, first_line_buf |-> <<>>,
          data_blocks_buf |-> <<>>, wire |-> <<>>, result |-> ConnectError(co),
          calls |-> <<>>]
    ELSE ReadOutcome(read_response_auto(s, at_eof, <<>>, <<>>, fault),
                     <<>>, <<>>, "None")

\* Before NntpConnection::connect is called: the peer may already have
\* written its greeting.
InitConnect ==
    /\ stream = <<>>
    /\ eof = FALSE
    /\ nchunks = 0
    /\ first_line_buf = <<>>
    /\ data_blocks_buf = <<>>
    /\ wire = <<>>
    /\ result = NoResult
    /\ last = NoLast
    /\ conn = "unconnected"
    /\ compression = "None"
    /\ first_line_cap = WithCapacity(FirstLineBufSize)
    /\ data_blocks_cap = WithCapacity(DataBlocksBufSize)
    /\ decoded = NoDecoded
    /\ held = NoHeld
    /\ post = NoPost
    /\ client = NoClient
    /\ cmd = NoCommand
    /\ config = DefaultConfig
    /\ pin = <<>>
    /\ pfn = "none"
    /\ pout = NoParse

\* connect returns Ok((conn, initial_resp)) or Err: no connection then.
ConnOf(o) == IF o.result.tag = "Ok" THEN "open" ELSE "none"

\* connect returns with outcome o.
ConnectReturns(o) ==
    /\ conn' = ConnOf(o)
    /\ Returns("connect", <<>>, "", o)

Connect(co, fault) ==
    /\ conn = "unconnected"
    /\ UNCHANGED <<eof, nchunks, pin, pfn, pout, compression, decoded, held, appVars>>
    /\ ConnectReturns(connect(stream, eof, co, fault))

NextConnect ==
    \/ \E chunk \in CmdChunks : CmdServerWrite(chunk)
    \/ ServerClose
    \/ \E co \in ConnectOutcomes, fault \in CmdFaults : Connect(co, fault)

SpecConnect == InitConnect /\ [][NextConnect]_vars

\* C11: connect writes nothing to the transport and makes at most one call,
\* a read_response(None), which it makes whenever the stream was opened;
\* when that read succeeds the response returned is the first response the
\* peer delivered, the greeting, and the connection is returned with it;
\* when the read or an earlier step fails connect returns the error and no
\* connection.
C11_ConnectReadsGreeting ==
    last.op = "connect" =>
        /\ wire = <<>>
        /\ last.calls \in {<<>>, <<ReadCall("None", TRUE)>>, <<ReadCall("None", FALSE)>>}
        /\ last.calls = <<>> => (result.tag = "Err" /\ last.consumed = <<>>)
        /\ last.calls = <<ReadCall("None", TRUE)>> <=> result.tag = "Ok"
        /\ result.tag = "Ok" =>
               /\ conn = "open"
               /\ result.resp.first_line = UpToLF(last.consumed)
               /\ result.resp.first_line \o result.resp.data_blocks.payload = last.consumed
        /\ result.tag = "Err" => (conn = "none" /\ result.resp = NoResponse)

\* connect opened the stream, its one read failed and it returned no
\* connection.
C11_Witness ==
    /\ last.op = "connect"
    /\ last.calls = <<ReadCall("None", FALSE)>>
    /\ conn = "none"

\* C12: a send_bytes that returns Ok has put on the transport exactly the
\* command followed by one CRLF and returns the command's length plus 2,
\* also when a write call accepts fewer bytes than it was offered; it reads
\* nothing from the stream.
C12_SendBytesWritesAll ==
    (last.op = "send" /\ result.tag = "Ok") =>
        /\ wire = last.command \o CRLF
        /\ result.bytes = Len(last.command) + 2
        /\ last.consumed = <<>>

\* -------------------------------------------------------------- compression
MaxZChunks == 4

\* What the peer may write in one piece where compression is looked at: the
\* status line "101 [COMPRESS=GZIP]", the same with a space after the
\* marker, the plain data-block line ".", the zlib stream of the lines "x"
\* and ".", and the zlib stream of the line "." short of its end mark; and
\* the single-line status "200 x".
ZChunks ==
    { <<50, 48, 48, SP, 120, CR, LF>>,
      <<49, 48, 49, SP>> \o Marker \o CRLF,
      <<49, 48, 49, SP>> \o Marker \o <<SP>> \o CRLF,
      <<DOT, CR, LF>>,
      Deflate(<<120, CR, LF, DOT, CR, LF>>),
      AllButLast(Deflate(<<DOT, CR, LF>>)) }

\* A connection before its first read, with or without compression
\* configured.
InitZ ==
    /\ stream = <<>>
    /\ eof = FALSE
    /\ nchunks = 0
    /\ first_line_buf = <<>>
    /\ data_blocks_buf = <<>>
    /\ wire = <<>>
    /\ result = NoResult
    /\ last = NoLast
    /\ conn = "open"
    /\ compression \in {"None", "XFeature"}
    /\ first_line_cap = WithCapacity(FirstLineBufSize)
    /\ data_blocks_cap = WithCapacity(DataBlocksBufSize)
    /\ decoded = NoDecoded
    /\ held = NoHeld
    /\ post = NoPost
    /\ client = NoClient
    /\ cmd = NoCommand
    /\ config = DefaultConfig
    /\ pin = <<>>
    /\ pfn = "none"
    /\ pout = NoParse

\* The peer writes one more chunk where compression is looked at.
ZServerWrite(chunk) ==
    /\ ~eof
    /\ nchunks < MaxZChunks
    /\ stream' = stream \o chunk
    /\ nchunks' = nchunks + 1
    /\ UNCHANGED <<eof, first_line_buf, data_blocks_buf, wire, result, last>>
    /\ UNCHANGED parseVars
    /\ UNCHANGED extVars

NextZ ==
    \/ \E chunk \in ZChunks : ZServerWrite(chunk)
    \/ ServerClose
    \/ \E fault \in Faults : ReadResponse("None", fault)

SpecZ == InitZ /\ [][NextZ]_vars

\* The raw bytes the last read took after its status line.
RawDataBlocks == SliceFrom(last.consumed, Len(result.resp.first_line))

\* The last response's status line ends with the marker and CRLF on a
\* connection configured for XFeature.
Marked ==
    /\ compression = "XFeature"
    /\ EndsWith(result.resp.first_line, Marker \o CRLF)

IsPrefix(a, b) == Len(a) <= Len(b) /\ SubSeq(b, 1, Len(a)) = a

\* C13: the data blocks of a response are read through the inflater if and
\* only if XFeature is configured and the status line of that response ends
\* with "[COMPRESS=GZIP]" and CRLF: then the payload is plain text inflated
\* from the raw bytes taken, and otherwise it is the raw bytes taken,
\* unmodified.  This holds of every read, whatever was read before it.
C13_DecoderIffMarked ==
    HasDataBlocks =>
        IF Marked
        THEN /\ IsPrefix(result.resp.data_blocks.payload, Inflate(RawDataBlocks).plain)
             /\ result.resp.data_blocks.payload # RawDataBlocks
        ELSE result.resp.data_blocks.payload = RawDataBlocks

\* On a connection configured for XFeature, a response whose status line has
\* the marker short of its end was read, raw, after an earlier read had left
\* inflated bytes in the data-block buffer.
C13_Witness ==
    /\ HasDataBlocks
    /\ compression = "XFeature"
    /\ ~Marked
    /\ last.stale_data_blocks
    /\ data_blocks_buf = <<DOT, CR, LF>>
    /\ result.resp.first_line = <<49, 48, 49, SP>> \o Marker \o <<SP>> \o CRLF

\* The plain text of which raw is the zlib stream, if it is one.
PlainOf(raw) == [i \in 1..(Len(raw) - 2) |-> raw[i + 1] - ZShift]

\* The raw bytes the last read took after its status line are one whole
\* zlib stream.
WholeZlibStream ==
    /\ Len(RawDataBlocks) >= 2
    /\ \A i \in 2..(Len(RawDataBlocks) - 1) : RawDataBlocks[i] >= ZShift
    /\ RawDataBlocks = Deflate(PlainOf(RawDataBlocks))

Keep ==
    /\ ~held.kept
    /\ result.tag = "Ok"
    /\ result.resp # NoResponse
    /\ held' = [kept |-> TRUE, owned |-> Owned, resp |-> result.resp]
    /\ UNCHANGED <<connVars, parseVars, cfgVars, capVars, decoded, appVars>>

NextFrame ==
    \/ \E chunk \in CmdChunks : CmdServerWrite(chunk)
    \/ ServerClose
    \/ \E fault \in CmdFaults : ReadResponseAuto(fault)
    \/ \E c \in Commands, so \in SendOutcomes : Send(c, so)
    \/ Keep

SpecFrame == Init /\ [][NextFrame]_vars

\* What the caller reads in the response it keeps: the bytes the response
\* owns, or, were they references, what the connection's buffers hold now.
HeldView ==
    IF held.owned THEN held.resp
    ELSE [code |-> held.resp.code,
          first_line |-> first_line_buf,
          data_blocks |->
              IF held.resp.data_blocks.present
              THEN [present |-> TRUE, payload |-> data_blocks_buf,
                    line_boundaries |-> held.resp.data_blocks.line_boundaries]
              ELSE NoDataBlocks]

C16_BuffersKeepBaseline ==
    HasResponse =>
        /\ Len(first_line_buf) <= FirstLineBufSize
        /\ Len(data_blocks_buf) <= DataBlocksBufSize
        /\ first_line_cap = FirstLineBufSize
        /\ data_blocks_cap = DataBlocksBufSize

\* ------------------------------------------------------- types/response
\* char::is_whitespace on an ASCII byte: TAB, LF, VT, FF, CR and space.
IsWhitespace(c) == c \in {9, 10, 11, 12, 13, SP}

\* str::split_whitespace: the maximal runs of bytes that are no whitespace.
RECURSIVE SplitFrom(_, _, _)
SplitFrom(b, i, tok) ==
    IF i > Len(b) THEN (IF tok = <<>> THEN <<>> ELSE <<tok>>)
    ELSE IF IsWhitespace(b[i])
    THEN (IF tok = <<>> THEN <<>> ELSE <<tok>>) \o SplitFrom(b, i + 1, <<>>)
    ELSE SplitFrom(b, i + 1, Append(tok, b[i]))

split_whitespace(b) == SplitFrom(b, 1, <<>>)

\* u32::MAX and u64::MAX, as decimal digits.
U32Max == <<52, 50, 57, 52, 57, 54, 55, 50, 57, 53>>
U64Max == <<49, 56, 52, 52, 54, 55, 52, 52, 48, 55, 51, 55, 48, 57, 53, 53, 49, 54, 49, 53>>

RECURSIVE StripZeros(_)
StripZeros(d) == IF Len(d) > 1 /\ d[1] = 48 THEN StripZeros(Tail(d)) ELSE d

\* a <= b for digit strings without leading zeros.
RECURSIVE DigitsLeq(_, _)
DigitsLeq(a, b) ==
    IF Len(a) # Len(b) THEN Len(a) < Len(b)
    ELSE IF a = <<>> THEN TRUE
    ELSE IF a[1] # b[1] THEN a[1] < b[1]
    ELSE DigitsLeq(Tail(a), Tail(b))

\* <unsigned integer>::from_str: an optional '+', then one or more digits
\* whose value is at most max.  A number is kept as its decimal digits
\* without leading zeros.
ParseUnsigned(tok, max) ==
    LET d == IF tok # <<>> /\ tok[1] = 43 THEN Tail(tok) ELSE tok
    IN  IF d = <<>> \/ \E i \in 1..Len(d) : ~IsDigit(d[i])
        THEN [ok |-> FALSE, val |-> <<>>]
        ELSE IF ~DigitsLeq(StripZeros(d), max) THEN [ok |-> FALSE, val |-> <<>>]
        ELSE [ok |-> TRUE, val |-> StripZeros(d)]

\* An Err(Error::Deserialization(..)) of decoder fn.
DeErr(fn, err, field) == [NoDecoded EXCEPT !.fn = fn, !.err = err, !.field = field]

\* parse_field::<T> on the k-th token: Error::missing_field(name) when the
\* iterator is at its end, Error::parse_error(name) when T::from_str fails.
\* max is T::MAX for an integer T and <<>> for String, whose from_str
\* cannot fail.
parse_field(toks, k, max) ==
    IF k > Len(toks) THEN [ok |-> FALSE, err |-> "MissingField", val |-> <<>>]
    ELSE IF max = <<>> THEN [ok |-> TRUE, err |-> "", val |-> toks[k]]
    ELSE IF ~ParseUnsigned(toks[k], max).ok
    THEN [ok |-> FALSE, err |-> "ParseError", val |-> <<>>]
    ELSE [ok |-> TRUE, err |-> "", val |-> ParseUnsigned(toks[k], max).val]

\* A kind check that lets every code through.
AnyKind(resp, desired) == FALSE

\* err_if_not_kind: resp.code != ResponseCode::Known(desired)
err_if_not_kind(resp, desired) == resp.code # [known |-> TRUE, num |-> desired]

\* The four fields of a Group, parsed in order from the tokens after the
\* code; the first that fails is returned with `?`.
GroupFields(toks, max) ==
    LET number == parse_field(toks, 2, max)
        low    == parse_field(toks, 3, max)
        high   == parse_field(toks, 4, max)
        name   == parse_field(toks, 5, <<>>)
    IN  IF Len(toks) < 1 THEN DeErr("group", "MissingField", "response code")
        ELSE IF ~number.ok THEN DeErr("group", number.err, "number")
        ELSE IF ~low.ok THEN DeErr("group", low.err, "low")
        ELSE IF ~high.ok THEN DeErr("group", high.err, "high")
        ELSE IF ~name.ok THEN DeErr("group", name.err, "name")
        ELSE [NoDecoded EXCEPT !.fn = "group", !.ok = TRUE, !.number = number.val,
                               !.low = low.val, !.high = high.val, !.name = name.val]

\* impl TryFrom<&RawResponse> for Group in types/response/group.rs: the kind
\* check, then the fields, which are ArticleNumber = u64.
GroupTryFrom(resp) ==
    IF err_if_not_kind(resp, 211) THEN DeErr("group", "InvalidCode", "")
    ELSE GroupFields(split_whitespace(resp.first_line), U64Max)

\* impl TryFrom<&RawResponse> for Group in types/response/mod.rs: no kind
\* check; the fields are u32.
GroupTryFromMod(resp) == GroupFields(split_whitespace(resp.first_line), U32Max)

\* ----------------------------------------------- types/response/article
\* process_article_first_line: the code token is skipped unlooked at, then
\* the article-number (of the width max) and the message-id are parsed.
process_article_first_line(resp, max) ==
    LET toks       == split_whitespace(resp.first_line)
        number     == parse_field(toks, 2, max)
        message_id == parse_field(toks, 3, <<>>)
    IN  IF ~number.ok
        THEN [ok |-> FALSE, err |-> number.err, field |-> "article-number",
              number |-> <<>>, message_id |-> <<>>]
        ELSE IF ~message_id.ok
        THEN [ok |-> FALSE, err |-> message_id.err, field |-> "message-id",
              number |-> <<>>, message_id |-> <<>>]
        ELSE [ok |-> TRUE, err |-> "", field |-> "",
              number |-> number.val, message_id |-> message_id.val]

\* is_a_notcolon, is_a_char and nom's space: the byte classes of the header
\* grammar (the peer's bytes are ASCII here, so a P-CHAR is an A-CHAR).
ANotColon == (33..57) \cup (59..126)
AChar == 33..126
Space == {SP, 9}

\* take_while(class): the position of the first byte from i on that is not
\* in class.
RECURSIVE SkipIn(_, _, _)
SkipIn(b, i, class) ==
    IF i <= Len(b) /\ b[i] \in class THEN SkipIn(b, i + 1, class) ELSE i

\* nom's crlf would match at position i.
HasCrlf(b, i) == i + 1 <= Len(b) /\ b[i] = CR /\ b[i + 1] = LF

\* many0(tuple((opt(crlf), space1, take_token))): the position after the
\* last item that matches whole.
RECURSIVE MoreTokens(_, _)
MoreTokens(b, i) ==
    LET j == IF HasCrlf(b, i) THEN i + 2 ELSE i
        k == SkipIn(b, j, Space)
        t == SkipIn(b, k, AChar)
    IN  IF k > j /\ t > k THEN MoreTokens(b, t) ELSE i

\* take_header_content from position i: the position after the content, or
\* 0 when there is no first token.
take_header_content(b, i) ==
    LET c == SkipIn(b, i, Space)
        t == SkipIn(b, c, AChar)
    IN  IF t = c THEN 0 ELSE MoreTokens(b, t)

\* take_header from position i: header-name ":" SP header-content CRLF.
take_header(b, i) ==
    LET n == SkipIn(b, i, ANotColon)
        e == take_header_content(b, n + 2)
        no == [ok |-> FALSE, next |-> i, name |-> <<>>, content |-> <<>>]
    IN  IF n = i THEN no
        ELSE IF ~(n + 1 <= Len(b) /\ b[n] = 58 /\ b[n + 1] = SP) THEN no
        ELSE IF e = 0 \/ ~HasCrlf(b, e) THEN no
        ELSE [ok |-> TRUE, next |-> e + 2, name |-> SubSeq(b, i, n - 1),
              content |-> SubSeq(b, n + 2, e - 1)]

\* fold_many1(take_header, ..): headers are taken until one does not parse.
RECURSIVE FoldHeaders(_, _, _)
FoldHeaders(b, i, acc) ==
    IF take_header(b, i).ok
    THEN FoldHeaders(b, take_header(b, i).next,
                     Append(acc, <<take_header(b, i).name, take_header(b, i).content>>))
    ELSE [next |-> i, headers |-> acc]

\* The fold closure's acc.entry(name).or_default().push(content), and one
\* that keeps only the last content of a name.
Overwrite(entries, content) == <<content>>

Push(entries, content) == Append(entries, content)

\* The HashMap<String, Vec<String>> the fold builds from the headers taken,
\* in the order they were taken.
RECURSIVE HeaderMap(_, _)
HeaderMap(pairs, acc) ==
    IF pairs = <<>> THEN acc
    ELSE HeaderMap(Tail(pairs),
             [n \in DOMAIN acc \cup {pairs[1][1]} |->
                 IF n = pairs[1][1]
                 THEN Push(IF n \in DOMAIN acc THEN acc[n] ELSE <<>>, pairs[1][2])
                 ELSE acc[n]])

\* Headers: the map and the number of headers counted while it was built.
HeadersOf(pairs) == [inner |-> HeaderMap(pairs, [n \in {} |-> <<>>]), len |-> Len(pairs)]

\* Headers::len
HeadersLen(h) == h.len

\* A take_headers that does not ask for the blank line.
take_headers_unterminated(b) ==
    [ok |-> FoldHeaders(b, 1, <<>>).headers # <<>>,
     headers |-> FoldHeaders(b, 1, <<>>).headers,
     rest |-> SubSeq(b, FoldHeaders(b, 1, <<>>).next, Len(b))]

\* take_headers: one or more headers and the CRLF of the blank line; rest
\* is what follows the blank line.
take_headers(b) ==
    LET f == FoldHeaders(b, 1, <<>>)
    IN  IF f.headers = <<>> \/ ~HasCrlf(b, f.next)
        THEN [ok |-> FALSE, headers |-> <<>>, rest |-> <<>>]
        ELSE [ok |-> TRUE, headers |-> f.headers, rest |-> SubSeq(b, f.next + 2, Len(b))]

\* impl TryFrom<&RawResponse> for Stat
StatTryFrom(resp) ==
    LET fl == process_article_first_line(resp, U64Max)
    IN  IF err_if_not_kind(resp, 223) THEN DeErr("stat", "InvalidCode", "")
        ELSE IF ~fl.ok THEN DeErr("stat", fl.err, fl.field)
        ELSE [NoDecoded EXCEPT !.fn = "stat", !.ok = TRUE, !.number = fl.number,
                               !.message_id = fl.message_id]

\* impl TryFrom<&RawResponse> for Body: the data blocks are cloned whole.
BodyTryFrom(resp) ==
    LET fl == process_article_first_line(resp, U64Max)
    IN  IF err_if_not_kind(resp, 222) THEN DeErr("body", "InvalidCode", "")
        ELSE IF ~fl.ok THEN DeErr("body", fl.err, fl.field)
        ELSE IF ~resp.data_blocks.present THEN DeErr("body", "MissingDataBlocks", "")
        ELSE [NoDecoded EXCEPT !.fn = "body", !.ok = TRUE, !.number = fl.number,
                               !.message_id = fl.message_id,
                               !.body = resp.data_blocks.payload,
                               !.line_boundaries = resp.data_blocks.line_boundaries]

\* impl TryFrom<&RawResponse> for Head
HeadTryFrom(resp) ==
    LET fl == process_article_first_line(resp, U64Max)
        th == take_headers(resp.data_blocks.payload)
    IN  IF err_if_not_kind(resp, 221) THEN DeErr("head", "InvalidCode", "")
        ELSE IF ~fl.ok THEN DeErr("head", fl.err, fl.field)
        ELSE IF ~resp.data_blocks.present THEN DeErr("head", "MissingDataBlocks", "")
        ELSE IF ~th.ok THEN DeErr("head", "InvalidDataBlocks", "")
        ELSE [NoDecoded EXCEPT !.fn = "head", !.ok = TRUE, !.number = fl.number,
                               !.message_id = fl.message_id, !.headers = th.headers]

\* A re-basing that keeps every boundary as it is.
KeepBoundaries(lb, bytes_read) == lb

\* line_boundaries.iter().skip_while(|(start, _)| start < &bytes_read)
\*     .map(|(start, end)| (start - bytes_read, end - bytes_read))
RECURSIVE RebaseBoundaries(_, _)
RebaseBoundaries(lb, bytes_read) ==
    IF lb = <<>> THEN <<>>
    ELSE IF lb[1][1] < bytes_read THEN RebaseBoundaries(Tail(lb), bytes_read)
    ELSE [i \in 1..Len(lb) |-> <<lb[i][1] - bytes_read, lb[i][2] - bytes_read>>]

\* impl TryFrom<&RawResponse> for BinaryArticle: the code is compared in
\* place, the article-number is a u32, and number and message-id are parsed
\* but not kept in the article.
ArticleTryFrom(resp) ==
    LET fl == process_article_first_line(resp, U32Max)
        th == take_headers(resp.data_blocks.payload)
        bytes_read == Len(resp.data_blocks.payload) - Len(th.rest)
    IN  IF resp.code # [known |-> TRUE, num |-> 220]
        THEN DeErr("article", "InvalidCode", "")
        ELSE IF ~fl.ok THEN DeErr("article", fl.err, fl.field)
        ELSE IF ~resp.data_blocks.present THEN DeErr("article", "MissingDataBlocks", "")
        ELSE IF ~th.ok THEN DeErr("article", "InvalidDataBlocks", "")
        ELSE [NoDecoded EXCEPT !.fn = "article", !.ok = TRUE, !.number = fl.number,
                               !.message_id = fl.message_id, !.headers = th.headers,
                               !.body = th.rest,
                               !.line_boundaries =
                                   RebaseBoundaries(resp.data_blocks.line_boundaries,
                                                    bytes_read)]

\* Unterminated::next over the whole iterator: body[start..end - 2] per
\* boundary; the iterator ends where the boundaries end.
ArticleUnterminated(a) ==
    [i \in 1..Len(a.line_boundaries) |->
        Slice(a.body, a.line_boundaries[i][1], a.line_boundaries[i][2] - 2)]

\* A continuation byte of UTF-8 at position i of b.
IsCont(b, i, lo, hi) == i <= Len(b) /\ b[i] >= lo /\ b[i] <= hi

\* The range the second byte of a sequence must be in, by its first byte x.
SecondLo(x) == IF x = 224 THEN 160 ELSE IF x = 240 THEN 144 ELSE 128
SecondHi(x) == IF x = 237 THEN 159 ELSE IF x = 244 THEN 143 ELSE 191

\* The width of a sequence by its first byte: 0 for a byte that starts none.
Utf8Width(x) ==
    IF x < 128 THEN 1
    ELSE IF x >= 194 /\ x <= 223 THEN 2
    ELSE IF x >= 224 /\ x <= 239 THEN 3
    ELSE IF x >= 240 /\ x <= 244 THEN 4
    ELSE 0

\* How many bytes from i on are the well-formed start of one UTF-8
\* sequence of b: its whole width when the sequence is valid, fewer when
\* it breaks off.
Utf8Prefix(b, i) ==
    LET w == Utf8Width(b[i])
    IN  IF w <= 1 THEN w
        ELSE IF ~IsCont(b, i + 1, SecondLo(b[i]), SecondHi(b[i])) THEN 1
        ELSE IF w = 2 THEN 2
        ELSE IF ~IsCont(b, i + 2, 128, 191) THEN 2
        ELSE IF w = 3 THEN 3
        ELSE IF ~IsCont(b, i + 3, 128, 191) THEN 3
        ELSE 4

\* std::str::from_utf8(b) is Ok, read from position i on.
RECURSIVE Utf8Valid(_, _)
Utf8Valid(b, i) ==
    IF i > Len(b) THEN TRUE
    ELSE IF Utf8Width(b[i]) = 0 \/ Utf8Prefix(b, i) # Utf8Width(b[i]) THEN FALSE
    ELSE Utf8Valid(b, i + Utf8Width(b[i]))

\* String::from_utf8_lossy from position i on: a valid sequence is copied,
\* a broken one becomes U+FFFD (EF BF BD) and is skipped as far as it went.
RECURSIVE Utf8Lossy(_, _)
Utf8Lossy(b, i) ==
    IF i > Len(b) THEN <<>>
    ELSE IF Utf8Width(b[i]) # 0 /\ Utf8Prefix(b, i) = Utf8Width(b[i])
    THEN SubSeq(b, i, i + Utf8Width(b[i]) - 1) \o Utf8Lossy(b, i + Utf8Width(b[i]))
    ELSE IF Utf8Width(b[i]) = 0 THEN <<239, 191, 189>> \o Utf8Lossy(b, i + 1)
    ELSE <<239, 191, 189>> \o Utf8Lossy(b, i + Utf8Prefix(b, i))

\* A from_utf8 that takes any bytes.
AnyBytesValid(line) == TRUE

\* from_utf8(l) is Ok
from_utf8_ok(line) == Utf8Valid(line, 1)

\* BinaryArticle::to_text: the headers and the unterminated lines as
\* strings, or the Utf8 error of the first line that is not UTF-8.
to_text(a) ==
    IF \E i \in 1..Len(a.line_boundaries) : ~from_utf8_ok(ArticleUnterminated(a)[i])
    THEN [ok |-> FALSE, err |-> "Utf8", headers |-> <<>>, body |-> <<>>]
    ELSE [ok |-> TRUE, err |-> "", headers |-> a.headers, body |-> ArticleUnterminated(a)]

\* BinaryArticle::to_text_lossy
to_text_lossy(a) ==
    [ok |-> TRUE, err |-> "", headers |-> a.headers,
     body |-> [i \in 1..Len(a.line_boundaries) |-> Utf8Lossy(ArticleUnterminated(a)[i], 1)]]

\* ------------------------------------------------ Capabilities::try_from
\* The closure that maps one line to (label, args), folded into the HashMap
\* by collect: a line without a token is Error::de("Entry does not have a
\* label") and ends the collection; a label seen before is overwritten.
\* args is Some when a token follows the label: a HashSet in
\* capabilities.rs (as_set), a Vec in mod.rs.
RECURSIVE CapEntries(_, _, _)
CapEntries(lines, acc, as_set) ==
    IF lines = <<>> THEN [ok |-> TRUE, entries |-> acc]
    ELSE IF split_whitespace(lines[1]) = <<>> THEN [ok |-> FALSE, entries |-> acc]
    ELSE CapEntries(Tail(lines),
             [n \in DOMAIN acc \cup {split_whitespace(lines[1])[1]} |->
                 IF n = split_whitespace(lines[1])[1]
                 THEN [some |-> Len(split_whitespace(lines[1])) > 1,
                       args |-> IF as_set
                                THEN {split_whitespace(lines[1])[k] :
                                          k \in 2..Len(split_whitespace(lines[1]))}
                                ELSE Tail(split_whitespace(lines[1]))]
                 ELSE acc[n]],
             as_set)

\* The decoder's result from the collected entries.
CapResult(file, c) ==
    IF ~c.ok THEN [DeErr("capabilities", "NoLabel", "") EXCEPT !.file = file]
    ELSE [NoDecoded EXCEPT !.fn = "capabilities", !.ok = TRUE, !.file = file,
                           !.entries = c.entries]

\* impl TryFrom<&RawResponse> for Capabilities in capabilities.rs: the kind
\* is checked, the lines are those of DataBlocks::unterminated.
CapabilitiesTryFrom(resp) ==
    IF err_if_not_kind(resp, 101)
    THEN [DeErr("capabilities", "InvalidCode", "") EXCEPT !.file = "capabilities.rs"]
    ELSE IF ~resp.data_blocks.present
    THEN [DeErr("capabilities", "MissingDataBlocks", "") EXCEPT !.file = "capabilities.rs"]
    ELSE CapResult("capabilities.rs",
             CapEntries(DataBlocksUnterminated(resp.data_blocks), [n \in {} |-> <<>>], TRUE))

\* impl TryFrom<&RawResponse> for Capabilities in types/response/mod.rs: no
\* kind check, and the lines are those of DataBlocks::lines.
CapabilitiesTryFromMod(resp) ==
    IF ~resp.data_blocks.present
    THEN [DeErr("capabilities", "MissingDataBlocks", "") EXCEPT !.file = "mod.rs"]
    ELSE CapResult("mod.rs",
             CapEntries(DataBlocksLines(resp.data_blocks), [n \in {} |-> <<>>], FALSE))

\* ------------------------------------------------------ decoding responses
\* The status lines and data blocks of the responses that are decoded.
GroupLines ==
    { <<50, 49, 49, 32, 53, 32, 49, 48, 32, 50, 48, 32, 109, 105, 115, 99, 46, 116, 101, 115, 116, 13, 10>>,
      <<50, 49, 49, 32, 53, 32, 49, 48, 13, 10>>,
      <<50, 49, 49, 32, 53, 32, 120, 32, 50, 48, 32, 103, 13, 10>>,
      <<50, 48, 48, 32, 53, 32, 49, 48, 32, 50, 48, 32, 109, 105, 115, 99, 46, 116, 101, 115, 116, 13, 10>>,
      <<50, 49, 49, 32, 52, 50, 57, 52, 57, 54, 55, 50, 57, 54, 32, 49, 32, 50, 32, 103, 13, 10>>,
      <<50, 50, 51, 32, 55, 32, 60, 105, 100, 64, 120, 62, 13, 10>>,
      <<50, 50, 51, 32, 48, 55, 13, 10>> }

ArticleLinesSent ==
    { <<50, 50, 48, 32, 49, 32, 60, 105, 100, 64, 120, 62, 13, 10>>,
      <<50, 50, 49, 32, 49, 32, 60, 105, 100, 64, 120, 62, 13, 10>>,
      <<50, 50, 50, 32, 49, 32, 60, 105, 100, 64, 120, 62, 13, 10>>,
      <<50, 50, 48, 32, 49, 13, 10>> }

\* Capability lists: VERSION 2 and READER; the label A twice; a line of one
\* space, which has no label.
CapLinesSent ==
    { <<49, 48, 49, 32, 120, 13, 10>>,
      <<50, 50, 49, 32, 49, 32, 60, 105, 100, 64, 120, 62, 13, 10>> }

CapBlocksSent ==
    { <<86, 69, 82, 83, 73, 79, 78, 32, 50, 13, 10, 82, 69, 65, 68, 69, 82, 13, 10, 46, 13, 10>>,
      <<65, 32, 98, 13, 10, 65, 32, 99, 32, 100, 13, 10, 46, 13, 10>>,
      <<65, 13, 10, 32, 13, 10, 46, 13, 10>> }

BlocksSent ==
    { <<97, 58, 32, 98, 13, 10, 13, 10, 104, 101, 108, 108, 111, 13, 10, 46, 13, 10>>,
      <<97, 58, 32, 98, 13, 10, 32, 99, 13, 10, 13, 10, 46, 13, 10>>,
      <<97, 58, 32, 98, 13, 10, 46, 13, 10>>,
      <<104, 101, 108, 108, 111, 13, 10, 46, 13, 10>>,
      <<97, 58, 32, 98, 13, 10, 99, 58, 32, 100, 13, 10, 13, 10, 120, 13, 10, 121, 13, 10, 46, 13, 10>>,
      <<97, 58, 32, 98, 13, 10, 99, 58, 32, 100, 13, 10, 97, 58, 32, 101, 13, 10, 13, 10, 46, 13, 10>>,
      <<58, 32, 98, 13, 10, 13, 10, 46, 13, 10>>,
      <<97, 58, 98, 13, 10, 13, 10, 46, 13, 10>>,
      <<97, 58, 32, 98, 13, 10, 99, 13, 10, 13, 10, 46, 13, 10>>,
      <<97, 58, 32, 98, 13, 10, 13, 10, 255, 13, 10, 46, 13, 10>>,
      <<97, 58, 32, 98, 13, 10, 13, 10, 195, 169, 13, 10, 46, 13, 10>>,
      <<97, 58, 32, 13, 10, 13, 10, 46, 13, 10>> }

\* What read_response returns for the whole stream s.
ResponseOf(s) == read_response(s, TRUE, <<>>, <<>>, "None", 0).resp

\* The responses handed to the decoders: those read_response returns for
\* the streams above, and the RawResponse values that differ from them in
\* having no data blocks.
DecodeInputs ==
    {ResponseOf(s) : s \in GroupLines}
        \cup {ResponseOf(l \o d) : l \in ArticleLinesSent, d \in BlocksSent}
        \cup {[ResponseOf(l \o d) EXCEPT !.data_blocks = NoDataBlocks] :
                  l \in ArticleLinesSent, d \in BlocksSent}
        \cup {ResponseOf(l \o d) : l \in CapLinesSent, d \in CapBlocksSent}
        \cup {[ResponseOf(l \o d) EXCEPT !.data_blocks = NoDataBlocks] :
                  l \in CapLinesSent, d \in CapBlocksSent}

\* The caller holds a response and has not decoded it yet.
InitDecode ==
    /\ stream = <<>>
    /\ eof = FALSE
    /\ nchunks = 0
    /\ first_line_buf = <<>>
    /\ data_blocks_buf = <<>>
    /\ wire = <<>>
    /\ result = NoResult
    /\ last = NoLast
    /\ conn = "open"
    /\ compression = "None"
    /\ first_line_cap = WithCapacity(FirstLineBufSize)
    /\ data_blocks_cap = WithCapacity(DataBlocksBufSize)
    /\ decoded = NoDecoded
    /\ held \in {[kept |-> TRUE, owned |-> Owned, resp |-> r] : r \in DecodeInputs}
    /\ post = NoPost
    /\ client = NoClient
    /\ cmd = NoCommand
    /\ config = DefaultConfig
    /\ pin = <<>>
    /\ pfn = "none"
    /\ pout = NoParse

\* Group::try_from(&resp), as types/response/group.rs or as
\* types/response/mod.rs defines it.
DecodeGroup(file) ==
    /\ held.kept
    /\ decoded.fn = "none"
    /\ decoded' = IF file = "group.rs" THEN GroupTryFrom(held.resp)
                  ELSE GroupTryFromMod(held.resp)
    /\ UNCHANGED <<connVars, parseVars, cfgVars, capVars, held, appVars>>

\* Stat::try_from(&resp)
DecodeStat ==
    /\ held.kept
    /\ decoded.fn = "none"
    /\ decoded' = StatTryFrom(held.resp)
    /\ UNCHANGED <<connVars, parseVars, cfgVars, capVars, held, appVars>>

\* Body::try_from(&resp)
DecodeBody ==
    /\ held.kept
    /\ decoded.fn = "none"
    /\ decoded' = BodyTryFrom(held.resp)
    /\ UNCHANGED <<connVars, parseVars, cfgVars, capVars, held, appVars>>

\* Head::try_from(&resp)
DecodeHead ==
    /\ held.kept
    /\ decoded.fn = "none"
    /\ decoded' = HeadTryFrom(held.resp)
    /\ UNCHANGED <<connVars, parseVars, cfgVars, capVars, held, appVars>>

\* BinaryArticle::try_from(&resp)
DecodeArticle ==
    /\ held.kept
    /\ decoded.fn = "none"
    /\ decoded' = ArticleTryFrom(held.resp)
    /\ UNCHANGED <<connVars, parseVars, cfgVars, capVars, held, appVars>>

\* Capabilities::try_from(&resp), as capabilities.rs or as mod.rs defines it
DecodeCapabilities(file) ==
    /\ held.kept
    /\ decoded.fn = "none"
    /\ decoded' = IF file = "capabilities.rs" THEN CapabilitiesTryFrom(held.resp)
                  ELSE CapabilitiesTryFromMod(held.resp)
    /\ UNCHANGED <<connVars, parseVars, cfgVars, capVars, held, appVars>>

NextDecode ==
    \/ \E file \in {"capabilities.rs", "mod.rs"} : DecodeCapabilities(file)
    \/ \E file \in {"group.rs", "mod.rs"} : DecodeGroup(file)
    \/ DecodeStat
    \/ DecodeBody
    \/ DecodeHead
    \/ DecodeArticle

SpecDecode == InitDecode /\ [][NextDecode]_vars

\* The whitespace-delimited tokens of the first line of the response that
\* was decoded.
HeldTokens == split_whitespace(held.resp.first_line)

\* The token at position k is an unsigned decimal number.
IsNumberToken(k) ==
    /\ k <= Len(HeldTokens)
    /\ HeldTokens[k] # <<>>
    /\ \A i \in 1..Len(HeldTokens[k]) : IsDigit(HeldTokens[k][i])

\* C17: Group::try_from succeeds only for a response of code 211; it takes
\* the first four tokens after the code as number, low, high and name; a
\* response of code 211 whose tokens are all there and numeric where they
\* must be decodes; an absent token or one that is no number is a
\* Deserialization error that names the first such field; "211 5 10 20
\* misc.test" decodes to 5, 10, 20, "misc.test".
C17_GroupDecodes ==
    decoded.fn = "group" =>
        /\ decoded.ok => held.resp.code = [known |-> TRUE, num |-> 211]
        /\ decoded.ok =>
               /\ Len(HeldTokens) >= 5
               /\ IsNumberToken(2) /\ IsNumberToken(3) /\ IsNumberToken(4)
               /\ decoded.number = StripZeros(HeldTokens[2])
               /\ decoded.low = StripZeros(HeldTokens[3])
               /\ decoded.high = StripZeros(HeldTokens[4])
               /\ decoded.name = HeldTokens[5]
        /\ (held.resp.code = [known |-> TRUE, num |-> 211] /\ ~decoded.ok) =>
               /\ decoded.err \in {"MissingField", "ParseError"}
               /\ decoded.field \in {"number", "low", "high", "name"}
               /\ \E k \in 2..5 :
                      /\ decoded.field = <<"", "number", "low", "high", "name">>[k]
                      /\ decoded.err = "MissingField" <=> Len(HeldTokens) < k
                      /\ \A j \in 2..(k - 1) : j <= 4 => IsNumberToken(j)
        /\ held.resp.first_line = <<50, 49, 49, 32, 53, 32, 49, 48, 32, 50, 48, 32, 109, 105, 115, 99, 46, 116, 101, 115, 116, 13, 10>> =>
               /\ decoded.ok
               /\ decoded.number = <<53>>
               /\ decoded.low = <<49, 48>>
               /\ decoded.high = <<50, 48>>
               /\ decoded.name = <<109, 105, 115, 99, 46, 116, 101, 115, 116>>

\* The code a decoder requires: Kind::ArticleExists, Body, Head, Article.
RequiredCode(fn) ==
    [known |-> TRUE,
     num |-> CASE fn = "stat" -> 223 [] fn = "body" -> 222
               [] fn = "head" -> 221 [] OTHER -> 220]

ArticleDecoders == {"stat", "body", "head", "article"}

\* C18: the Stat, Body, Head and Article decoders fail with a
\* Deserialization error when the response code is not the kind they
\* require; when they succeed, the article number and the message id are
\* the first two tokens after the code; Body, Head and Article fail with a
\* Deserialization error when the response has no data blocks.
C18_ArticleDecodersCheck ==
    decoded.fn \in ArticleDecoders =>
        /\ held.resp.code # RequiredCode(decoded.fn) =>
               ~decoded.ok /\ decoded.err = "InvalidCode"
        /\ decoded.ok =>
               /\ Len(HeldTokens) >= 3
               /\ IsNumberToken(2)
               /\ decoded.number = StripZeros(HeldTokens[2])
               /\ decoded.message_id = HeldTokens[3]
        /\ (decoded.fn # "stat" /\ ~held.resp.data_blocks.present) =>
               /\ ~decoded.ok
               /\ decoded.err \in {"InvalidCode", "MissingField", "ParseError",
                                   "MissingDataBlocks"}
               /\ (held.resp.code = RequiredCode(decoded.fn) /\ Len(HeldTokens) >= 3)
                      => decoded.err = "MissingDataBlocks"
        /\ ~decoded.ok => decoded.err # ""

\* Body::try_from was given a response of code 222 with both tokens and no
\* data blocks.
C18_Witness ==
    /\ decoded.fn = "body"
    /\ held.resp.code = RequiredCode("body")
    /\ ~held.resp.data_blocks.present
    /\ decoded.err = "MissingDataBlocks"

\* The lines of the data blocks of the response that was decoded, and the
\* position of the first empty one among them, the blank line that ends
\* the headers.
HeldLines == DataBlocksLines(held.resp.data_blocks)

BlankLine == CHOOSE i \in 1..Len(HeldLines) :
                 /\ HeldLines[i] = CRLF
                 /\ \A j \in 1..(i - 1) : HeldLines[j] # CRLF

\* The lines between the blank line and the last line, the terminator,
\* each without its CRLF.
BodyLinesExpected ==
    [i \in 1..(Len(HeldLines) - BlankLine - 1) |-> StripTwo(HeldLines[BlankLine + i])]

\* C19: the body lines of a decoded article are the lines between the
\* blank line that ends the headers and the terminator line, each without
\* its CRLF; the terminator "." is no body line.  For the single body line
\* "hello", unterminated and to_text give exactly that line.
C19_BodyLinesExcludeTerminator ==
    (decoded.fn = "article" /\ decoded.ok) =>
        /\ ArticleUnterminated(decoded) = BodyLinesExpected
        /\ to_text(decoded).body = BodyLinesExpected
        /\ held.resp.data_blocks.payload = <<97, 58, 32, 98, 13, 10, 13, 10, 104, 101, 108, 108, 111, 13, 10, 46, 13, 10>> =>
               /\ ArticleUnterminated(decoded) = << <<104, 101, 108, 108, 111>> >>
               /\ to_text(decoded).body = << <<104, 101, 108, 108, 111>> >>

\* The offset in the payload where the header section ends: the end of the
\* blank line.
HeaderEnd == held.resp.data_blocks.line_boundaries[BlankLine][2]

\* C20: after article decoding the body is the payload from the end of the
\* header section on, and the line boundaries are those of the lines after
\* the blank line, re-based to the body: the first starts at 0, each starts
\* where the one before ends, 0 <= start < end <= len(body), the last ends
\* at len(body), and no boundary of a header line or of the blank line is
\* kept.
C20_BodyBoundariesRebased ==
    (decoded.fn = "article" /\ decoded.ok) =>
        LET lb == decoded.line_boundaries
            raw == held.resp.data_blocks.line_boundaries
        IN  /\ decoded.body = SliceFrom(held.resp.data_blocks.payload, HeaderEnd)
            /\ Len(lb) = Len(raw) - BlankLine
            /\ \A i \in 1..Len(lb) :
                   /\ lb[i][1] = raw[BlankLine + i][1] - HeaderEnd
                   /\ lb[i][2] = raw[BlankLine + i][2] - HeaderEnd
                   /\ 0 <= lb[i][1] /\ lb[i][1] < lb[i][2] /\ lb[i][2] <= Len(decoded.body)
                   /\ i > 1 => lb[i][1] = lb[i - 1][2]
            /\ lb # <<>>
            /\ lb[1][1] = 0
            /\ lb[Len(lb)][2] = Len(decoded.body)

\* An article with two headers and two body lines was decoded.
C20_Witness ==
    /\ decoded.fn = "article"
    /\ decoded.ok
    /\ Len(decoded.headers) = 2
    /\ Len(decoded.line_boundaries) = 3
    /\ BlankLine = 3

\* The decoder got a response of its code whose first line has the article
\* number and the message id, with data blocks.
HeaderSectionRead ==
    /\ decoded.fn \in {"head", "article"}
    /\ held.resp.code = RequiredCode(decoded.fn)
    /\ decoded.err \notin {"InvalidCode", "MissingField", "ParseError"}
    /\ held.resp.data_blocks.present

\* The line is one whole header: it parses as a header and nothing is left.
WholeHeaderLine(line) == take_header(line, 1).ok /\ take_header(line, 1).next = Len(line) + 1

\* C21: Head::try_from on a 221 response whose data block is one or more
\* well-formed header lines followed directly by the "." terminator line
\* succeeds, with those headers and the number and message id of the
\* status line.
C21_HeadDecodesHeadReply ==
    (/\ HeaderSectionRead
     /\ decoded.fn = "head"
     /\ Len(HeldLines) >= 2
     /\ HeldLines[Len(HeldLines)] = <<DOT, CR, LF>>
     /\ \A i \in 1..(Len(HeldLines) - 1) : WholeHeaderLine(HeldLines[i]))
        => /\ decoded.ok
           /\ Len(decoded.headers) = Len(HeldLines) - 1
           /\ decoded.number = StripZeros(HeldTokens[2])
           /\ decoded.message_id = HeldTokens[3]

\* C23: the content of a header folded over two lines is the token content
\* of both lines as one value, without the CRLF and the leading whitespace
\* of the continuation: "a: b", continued by " c", has the content "bc" (or
\* "b c", were one space kept); no content holds a CR or an LF.
C23_FoldedContentJoined ==
    (decoded.fn \in {"head", "article"} /\ decoded.ok) =>
        /\ \A k \in 1..Len(decoded.headers) :
               \A i \in 1..Len(decoded.headers[k][2]) :
                   decoded.headers[k][2][i] \notin {CR, LF}
        /\ held.resp.data_blocks.payload = <<97, 58, 32, 98, 13, 10, 32, 99, 13, 10, 13, 10, 46, 13, 10>> =>
               decoded.headers[1][2] \in { <<98, 99>>, <<98, SP, 99>> }

\* The position of the first ':' of a line, 0 when it has none.
ColonAt(line) ==
    IF \E i \in 1..Len(line) : line[i] = 58
    THEN CHOOSE i \in 1..Len(line) : line[i] = 58 /\ \A j \in 1..(i - 1) : line[j] # 58
    ELSE 0

\* The lines of the header section that start a header (a continuation
\* starts with whitespace), in order.
HasBlankLine == \E i \in 1..Len(HeldLines) : HeldLines[i] = CRLF

StartsHeader(i) == i < BlankLine /\ HeldLines[i][1] \notin Space

\* How many headers of the section have the name n.
Occurrences(n) ==
    Cardinality({i \in 1..Len(HeldLines) :
                    StartsHeader(i) /\ SubSeq(HeldLines[i], 1, ColonAt(HeldLines[i]) - 1) = n})

\* C24: take_headers keeps one value per occurrence of a header name, in
\* order of appearance: a name that occurs k times has exactly k values;
\* Headers::len is the number of occurrences of all names.  The headers
\* "a: b", "c: d", "a: e" give a the values b, e and c the value d, and a
\* length of 3.
C24_RepeatedHeadersKept ==
    (decoded.fn \in {"head", "article"} /\ decoded.ok) =>
        LET h == HeadersOf(decoded.headers)
        IN  /\ \A n \in DOMAIN h.inner : Len(h.inner[n]) = Occurrences(n)
            /\ \A i \in 1..Len(HeldLines) :
                   StartsHeader(i) =>
                       SubSeq(HeldLines[i], 1, ColonAt(HeldLines[i]) - 1) \in DOMAIN h.inner
            /\ HeadersLen(h) = Cardinality({i \in 1..Len(HeldLines) : StartsHeader(i)})
            /\ held.resp.data_blocks.payload = <<97, 58, 32, 98, 13, 10, 99, 58, 32, 100, 13, 10, 97, 58, 32, 101, 13, 10, 13, 10, 46, 13, 10>> =>
                   /\ DOMAIN h.inner = { <<97>>, <<99>> }
                   /\ h.inner[<<97>>] = << <<98>>, <<101>> >>
                   /\ h.inner[<<99>>] = << <<100>> >>
                   /\ HeadersLen(h) = 3

\* The header name a occurs twice, with another header between.
C24_Witness ==
    /\ decoded.fn = "article"
    /\ decoded.ok
    /\ Len(decoded.headers) = 3
    /\ decoded.headers[1][1] = decoded.headers[3][1]

\* C25: take_headers takes one or more headers and the blank line and
\* leaves exactly the bytes after the blank line; it fails when the first
\* header name is missing, when the ": " after a name is malformed, when
\* there is no blank line, or when a continuation line does not start with
\* whitespace; the decoders return such a failure as a Deserialization
\* error (invalid data blocks).
C25_TakeHeadersFails ==
    HeaderSectionRead =>
        /\ decoded.ok =>
               /\ HasBlankLine
               /\ Len(decoded.headers) >= 1
               /\ decoded.fn = "article" =>
                      decoded.body = SliceFrom(held.resp.data_blocks.payload, HeaderEnd)
        /\ ~decoded.ok => decoded.err = "InvalidDataBlocks"
        /\ ~HasBlankLine => ~decoded.ok
        /\ ColonAt(HeldLines[1]) = 1 => ~decoded.ok
        /\ (ColonAt(HeldLines[1]) > 1
                /\ HeldLines[1][ColonAt(HeldLines[1]) + 1] # SP) => ~decoded.ok
        /\ (HasBlankLine /\ \E i \in 2..Len(HeldLines) :
                StartsHeader(i) /\ ColonAt(HeldLines[i]) = 0) => ~decoded.ok

\* The article decoder was given headers whose second line, "c", is neither
\* a header nor a continuation that starts with whitespace.
C25_Witness ==
    /\ HeaderSectionRead
    /\ decoded.fn = "article"
    /\ held.resp.data_blocks.payload = <<97, 58, 32, 98, 13, 10, 99, 13, 10, 13, 10, 46, 13, 10>>
    /\ decoded.err = "InvalidDataBlocks"

\* C26: to_text fails with a Utf8 error and gives no article when a body
\* line is not UTF-8, and otherwise gives one string per line of the body,
\* equal to that line's bytes; to_text_lossy always succeeds, gives as many
\* lines as the article has, and leaves the lines that are UTF-8 as they
\* are.
C26_TextConversion ==
    (decoded.fn = "article" /\ decoded.ok) =>
        LET lines == ArticleUnterminated(decoded)
            bad   == \E i \in 1..Len(lines) : ~Utf8Valid(lines[i], 1)
        IN  /\ bad => (~to_text(decoded).ok /\ to_text(decoded).err = "Utf8"
                          /\ to_text(decoded).body = <<>>)
            /\ ~bad => (to_text(decoded).ok /\ to_text(decoded).body = lines)
            /\ to_text_lossy(decoded).ok
            /\ Len(to_text_lossy(decoded).body) = Len(decoded.line_boundaries)
            /\ \A i \in 1..Len(lines) :
                   Utf8Valid(lines[i], 1) => to_text_lossy(decoded).body[i] = lines[i]

\* An article whose body has the line FF, which is not UTF-8, was decoded.
C26_Witness ==
    /\ decoded.fn = "article"
    /\ decoded.ok
    /\ ArticleUnterminated(decoded)[1] = <<255>>
    /\ ~to_text(decoded).ok
    /\ to_text_lossy(decoded).body[1] = <<239, 191, 189>>

\* The tokens of the lines of the held response before its last line, the
\* terminator.
EntryTokens == [i \in 1..(Len(HeldLines) - 1) |-> split_whitespace(HeldLines[i])]

\* The last line before the terminator whose label is n.
LastWithLabel(n) ==
    CHOOSE i \in 1..Len(EntryTokens) :
        /\ EntryTokens[i][1] = n
        /\ \A j \in (i + 1)..Len(EntryTokens) : EntryTokens[j][1] # n

\* The arguments of a decoded capability as a set.
ArgSet(en) ==
    IF decoded.file = "mod.rs" THEN {en.args[k] : k \in 1..Len(en.args)} ELSE en.args

\* C22: Capabilities::try_from succeeds only for a response of the
\* capabilities code (101) that has data blocks; each line before the
\* terminator gives one entry, keyed by its first token, whose arguments are
\* the other tokens (none when there are no others); the terminator line
\* gives no entry; a later line with a label seen before replaces the
\* earlier entry; "VERSION 2", "READER" decodes to exactly two entries.
C22_CapabilitiesDecode ==
    decoded.fn = "capabilities" =>
        /\ decoded.ok =>
               /\ held.resp.code = [known |-> TRUE, num |-> 101]
               /\ held.resp.data_blocks.present
        /\ (/\ held.resp.code = [known |-> TRUE, num |-> 101]
            /\ held.resp.data_blocks.present
            /\ \A i \in 1..Len(EntryTokens) : EntryTokens[i] # <<>>) =>
               /\ decoded.ok
               /\ DOMAIN decoded.entries = {EntryTokens[i][1] : i \in 1..Len(EntryTokens)}
               /\ \A n \in DOMAIN decoded.entries :
                      /\ decoded.entries[n].some = (Len(EntryTokens[LastWithLabel(n)]) > 1)
                      /\ ArgSet(decoded.entries[n]) =
                             {EntryTokens[LastWithLabel(n)][k] :
                                  k \in 2..Len(EntryTokens[LastWithLabel(n)])}
        /\ (decoded.ok /\ held.resp.data_blocks.payload = <<86, 69, 82, 83, 73, 79, 78, 32, 50, 13, 10, 82, 69, 65, 68, 69, 82, 13, 10, 46, 13, 10>>) =>
               Cardinality(DOMAIN decoded.entries) = 2

\* ---------------------------------------------- types/command: post::Post
\* The header names, values and bodies given to the builder, and how many
\* calls are made on it before it is built.
MaxOps == 3

HeaderNames == { <<65>>, <<66>> }

HeaderValues == { <<120>>, <<121>> }

Bodies == { <<>>, <<104, 105>> }

\* self.headers.entry(name).or_default(): the HashSet of the name, an empty
\* one when the name is new.
OrDefault(headers, name) == IF name \in DOMAIN headers THEN headers[name] ELSE {}

\* The map with the HashSet of name set to vals.
WithEntry(headers, name, vals) ==
    [n \in DOMAIN headers \cup {name} |-> IF n = name THEN vals ELSE headers[n]]

\* Builder::header: self.headers.entry(name).or_default().insert(value)
header(headers, name, value) ==
    WithEntry(headers, name, OrDefault(headers, name) \cup {value})

\* Builder::set_header: entry.clear(); entry.insert(value)
set_header(headers, name, value) == WithEntry(headers, name, {value})

\* Builder::clear_header: self.headers.remove(name)
clear_header(headers, name) == [n \in DOMAIN headers \ {name} |-> headers[n]]

\* The (name, value) pairs of the map.
HeaderPairs(headers) == UNION {{<<n, v>> : v \in headers[n]} : n \in DOMAIN headers}

\* self.headers.iter().flat_map(|(name, vals)| vals.iter().map(..)): each
\* pair once, the pairs of one name together, in the order the HashMap and
\* the HashSets happen to iterate.
IterOrders(headers) ==
    {o \in [1..Cardinality(HeaderPairs(headers)) -> HeaderPairs(headers)] :
        /\ \A i, j \in DOMAIN o : i # j => o[i] # o[j]
        /\ \A i, j, k \in DOMAIN o : (i < j /\ j < k /\ o[i][1] = o[k][1]) => o[j][1] = o[i][1]}

\* The header lines of encode: name, ": ", value, CRLF for each pair.
HeaderLinesOf(order) ==
    Flatten([i \in 1..Len(order) |-> order[i][1] \o <<58, SP>> \o order[i][2] \o CRLF])

\* An encode that leaves out the empty line after the headers.
encode_without_blank_line(p, order) ==
    HeaderLinesOf(order) \o p.body \o CRLF \o <<DOT>>

\* impl Encode for Post: the header lines, an empty line, the body, CRLF and
\* ".".
encode(p, order) ==
    HeaderLinesOf(order) \o CRLF \o p.body \o CRLF \o <<DOT>>

\* builder.header(name, value)
Header(name, value) ==
    /\ ~post.encoded
    /\ Len(post.ops) < MaxOps
    /\ post' = [post EXCEPT !.headers = header(post.headers, name, value),
                            !.ops = Append(@, [op |-> "header", name |-> name, value |-> value])]
    /\ UNCHANGED <<connVars, parseVars, cfgVars, capVars, decoded, held, client, cmd, config>>

\* builder.set_header(name, value)
SetHeader(name, value) ==
    /\ ~post.encoded
    /\ Len(post.ops) < MaxOps
    /\ post' = [post EXCEPT !.headers = set_header(post.headers, name, value),
                            !.ops = Append(@, [op |-> "set_header", name |-> name, value |-> value])]
    /\ UNCHANGED <<connVars, parseVars, cfgVars, capVars, decoded, held, client, cmd, config>>

\* builder.clear_header(name)
ClearHeader(name) ==
    /\ ~post.encoded
    /\ Len(post.ops) < MaxOps
    /\ post' = [post EXCEPT !.headers = clear_header(post.headers, name),
                            !.ops = Append(@, [op |-> "clear_header", name |-> name, value |-> <<>>])]
    /\ UNCHANGED <<connVars, parseVars, cfgVars, capVars, decoded, held, client, cmd, config>>

\* builder.body(body): self.body = body.as_ref().to_owned()
Body(body) ==
    /\ ~post.encoded
    /\ Len(post.ops) < MaxOps
    /\ post' = [post EXCEPT !.body = body,
                            !.ops = Append(@, [op |-> "body", name |-> <<>>, value |-> body])]
    /\ UNCHANGED <<connVars, parseVars, cfgVars, capVars, decoded, held, client, cmd, config>>

\* builder.build() and encode() of the Post it returns
BuildEncode(order) ==
    /\ ~post.encoded
    /\ post' = [post EXCEPT !.encoded = TRUE, !.buf = encode(post, order)]
    /\ UNCHANGED <<connVars, parseVars, cfgVars, capVars, decoded, held, client, cmd, config>>

NextPost ==
    \/ \E name \in HeaderNames, value \in HeaderValues : Header(name, value)
    \/ \E name \in HeaderNames, value \in HeaderValues : SetHeader(name, value)
    \/ \E name \in HeaderNames : ClearHeader(name)
    \/ \E body \in Bodies : Body(body)
    \/ \E order \in IterOrders(post.headers) : BuildEncode(order)

SpecPost == Init /\ [][NextPost]_vars

\* C27: the encoded Post is one line name, ':', SP, value, CRLF for every
\* value of every header, each once and nothing else, then an empty line,
\* then the body as it was given, then CRLF and a lone "."; a name with
\* several values has as many lines.
C27_EncodeLayout ==
    post.encoded =>
        \E o \in [1..Cardinality(HeaderPairs(post.headers)) -> HeaderPairs(post.headers)] :
            /\ \A i, j \in DOMAIN o : i # j => o[i] # o[j]
            /\ post.buf = Flatten([i \in DOMAIN o |-> o[i][1] \o <<58, SP>> \o o[i][2] \o CRLF])
                              \o <<CR, LF>> \o post.body \o <<CR, LF, DOT>>

\* A Post with two values of one header name and a body was encoded.
C27_Witness ==
    /\ post.encoded
    /\ \E n \in DOMAIN post.headers : Cardinality(post.headers[n]) = 2
    /\ post.body # <<>>

\* The lines of the encoded Post before its first empty line, without CRLF.
RECURSIVE LinesUntilBlank(_, _)
LinesUntilBlank(b, i) ==
    IF i > Len(b) \/ HasCrlf(b, i) \/ ~\E j \in i..Len(b) : HasCrlf(b, j) THEN <<>>
    ELSE LET e == CHOOSE j \in i..Len(b) :
                      HasCrlf(b, j) /\ \A k \in i..(j - 1) : ~HasCrlf(b, k)
         IN  <<SubSeq(b, i, e - 1)>> \o LinesUntilBlank(b, e + 2)

\* How many header lines of the encoded Post have the name n.
LineCount(n) ==
    Cardinality({i \in 1..Len(LinesUntilBlank(post.buf, 1)) :
                    SubSeq(LinesUntilBlank(post.buf, 1)[i], 1, Len(n) + 2) = n \o <<58, SP>>})

\* How many headers of the name n the calls made on the builder leave:
\* header adds one, set_header leaves one, clear_header leaves none.
RECURSIVE HeadersLeft(_, _, _)
HeadersLeft(ops, n, count) ==
    IF ops = <<>> THEN count
    ELSE IF ops[1].name # n \/ ops[1].op = "body" THEN HeadersLeft(Tail(ops), n, count)
    ELSE IF ops[1].op = "header" THEN HeadersLeft(Tail(ops), n, count + 1)
    ELSE IF ops[1].op = "set_header" THEN HeadersLeft(Tail(ops), n, 1)
    ELSE HeadersLeft(Tail(ops), n, 0)

\* C28: every call of header appends one header line, also when the same
\* name and value were given before; set_header leaves exactly one line of
\* its name and clear_header none, and neither touches another name: the
\* encoded Post has, for each name, as many header lines as the calls made
\* on the builder leave.
C28_DuplicatesMaintained ==
    post.encoded => \A n \in HeaderNames : LineCount(n) = HeadersLeft(post.ops, n, 0)

\* ------------------------------------------------------ client: NntpClient
\* The commands of the client, as to_string renders them, for the user "u"
\* and the password "p".
AuthInfoUser == <<65, 85, 84, 72, 73, 78, 70, 79, 32, 85, 83, 69, 82, 32, 117>>

AuthInfoPass == <<65, 85, 84, 72, 73, 78, 70, 79, 32, 80, 65, 83, 83, 32, 112>>

Quit == <<81, 85, 73, 84>>

\* The responses the server gives the client: 381, 281, 205 and 502.
ClientChunks ==
    { <<51, 56, 49, 32, 120, 13, 10>>,
      <<50, 56, 49, 32, 120, 13, 10>>,
      <<50, 48, 53, 32, 120, 13, 10>>,
      <<53, 48, 50, 32, 120, 13, 10>> }

\* The codes fail_unless is asked for: ConnectionClosing,
\* AuthenticationAccepted, PasswordRequired.
DesiredKinds == {205, 281, 381}

\* Error::failure(resp), and the Error::Failure authenticate builds:
\* the code of the response and the response.
Failure(resp) == [tag |-> "Err", err |-> "Failure", code |-> resp.code, resp |-> resp]

\* Error::Connection(#[from] raw::error::Error): what `?` makes of the
\* error of a command.
Connection ==
    [tag |-> "Err", err |-> "Connection", code |-> ResponseCodeFrom(0), resp |-> NoResponse]

OkWith(resp) == [tag |-> "Ok", err |-> "", code |-> resp.code, resp |-> resp]

\* A fail_unless that returns every response.
fail_never(resp, desired) == OkWith(resp)

\* RawResponse::fail_unless(desired), desired a Kind
fail_unless(resp, desired) ==
    IF resp.code # [known |-> TRUE, num |-> desired] THEN Failure(resp) ELSE OkWith(resp)

\* A check of the USER reply that lets every code pass.
AnyUserReply(code) == TRUE

\* authenticate: user_resp.code != ResponseCode::from(381) fails
UserAccepted(code) == code = ResponseCodeFrom(381)

\* authenticate, from its start to the check of the reply to USER: o is
\* what conn.command(&AuthInfo::User(..)) came to.
authenticate_user(o) ==
    IF o.result.tag = "Err" THEN Connection
    ELSE IF ~UserAccepted(o.result.resp.code) THEN Failure(o.result.resp)
    ELSE [tag |-> "none", err |-> "", code |-> o.result.resp.code, resp |-> NoResponse]

\* authenticate, from the PASS command to its return
authenticate_pass(o) ==
    IF o.result.tag = "Err" THEN Connection
    ELSE IF o.result.resp.code # [known |-> TRUE, num |-> 281] THEN Failure(o.result.resp)
    ELSE [tag |-> "Ok", err |-> "", code |-> o.result.resp.code, resp |-> NoResponse]

\* NntpClient::close: self.conn.command(&cmd::Quit)?.fail_unless(..)?
close(o) ==
    IF o.result.tag = "Err" THEN Connection
    ELSE fail_unless(o.result.resp, 205)

IsSendCall(x) == x.call = "send"

\* The client after a step of op that returned r: the sends the step made
\* and what its command returned are added to those of the call.
ClientAfter(op, r, o, sent, replies) ==
    [op |-> op, pc |-> IF r.tag = "none" THEN "user_ok" ELSE "done",
     tag |-> r.tag, err |-> r.err, code |-> r.code, resp |-> r.resp,
     sent |-> sent \o SelectSeq(o.calls, IsSendCall),
     replies |-> Append(replies, o.result), desired |-> 0,
     group |-> client.group, capabilities |-> client.capabilities,
     build |-> client.build]

AuthUserReturns(o) ==
    /\ Returns("authenticate", AuthInfoUser, "", o)
    /\ client' = ClientAfter("authenticate", authenticate_user(o), o, <<>>, <<>>)

AuthPassReturns(o) ==
    /\ Returns("authenticate", AuthInfoPass, "", o)
    /\ client' = ClientAfter("authenticate", authenticate_pass(o), o, client.sent, client.replies)

CloseReturns(o) ==
    /\ Returns("close", Quit, "", o)
    /\ client' = ClientAfter("close", close(o), o, <<>>, <<>>)

\* authenticate is called: AUTHINFO USER is sent and its reply is checked
AuthUser(so, fault) ==
    /\ client.pc \in {"idle", "done"}
    /\ UNCHANGED <<eof, nchunks, pin, pfn, pout, conn, compression, decoded, held, post, cmd, config>>
    /\ AuthUserReturns(
           command(stream, eof, first_line_buf, data_blocks_buf, AuthInfoUser, so, fault))

\* authenticate goes on: AUTHINFO PASS is sent and its reply is checked
AuthPass(so, fault) ==
    /\ client.pc = "user_ok"
    /\ UNCHANGED <<eof, nchunks, pin, pfn, pout, conn, compression, decoded, held, post, cmd, config>>
    /\ AuthPassReturns(
           command(stream, eof, first_line_buf, data_blocks_buf, AuthInfoPass, so, fault))

\* NntpClient::close
Close(so, fault) ==
    /\ client.pc \in {"idle", "done"}
    /\ UNCHANGED <<eof, nchunks, pin, pfn, pout, conn, compression, decoded, held, post, cmd, config>>
    /\ CloseReturns(
           command(stream, eof, first_line_buf, data_blocks_buf, Quit, so, fault))

\* resp.fail_unless(desired) on the response the last command returned
FailUnless(desired) ==
    /\ client.pc \in {"idle", "done"}
    /\ result.tag = "Ok"
    /\ result.resp # NoResponse
    /\ client' = fail_unless(result.resp, desired) @@
                  [op |-> "fail_unless", pc |-> "done", sent |-> <<>>,
                   replies |-> <<result>>, desired |-> desired,
                   group |-> client.group, capabilities |-> client.capabilities,
                   build |-> client.build]
    /\ UNCHANGED <<connVars, parseVars, cfgVars, capVars, decoded, held, post, cmd, config>>

NextClient ==
    \/ \E chunk \in ClientChunks : CmdServerWrite(chunk)
    \/ ServerClose
    \/ \E so \in SendOutcomes, fault \in CmdFaults : AuthUser(so, fault)
    \/ \E so \in SendOutcomes, fault \in CmdFaults : AuthPass(so, fault)
    \/ \E so \in SendOutcomes, fault \in CmdFaults : Close(so, fault)
    \/ \E desired \in DesiredKinds : FailUnless(desired)

SpecClient == Init /\ [][NextClient]_vars

\* What is common to the claim about authenticate and to its amendment: the
\* first command sent is AUTHINFO USER; a second is sent only after a reply
\* of code 381 to the first, and it is AUTHINFO PASS; no third is sent; the
\* call returns Ok only when the reply to PASS has the code 281.
AuthOrder ==
    /\ Len(client.sent) >= 1
    /\ client.sent[1].command = AuthInfoUser
    /\ Len(client.sent) <= 2
    /\ Len(client.sent) = 2 =>
           /\ client.sent[2].command = AuthInfoPass
           /\ client.replies[1].tag = "Ok"
           /\ client.replies[1].resp.code = [known |-> TRUE, num |-> 381]
    /\ (client.replies[1].tag = "Ok" /\ client.pc = "done"
            /\ client.replies[1].resp.code = [known |-> TRUE, num |-> 381]) =>
           Len(client.sent) = 2
    /\ client.tag = "Ok" =>
           /\ Len(client.replies) = 2
           /\ client.replies[2].tag = "Ok"
           /\ client.replies[2].resp.code = [known |-> TRUE, num |-> 281]

\* The call returned the Failure error of the last reply.
FailureOfLastReply ==
    /\ client.err = "Failure"
    /\ client.replies[Len(client.replies)].tag = "Ok"
    /\ client.resp = client.replies[Len(client.replies)].resp
    /\ client.code = client.resp.code

\* C29, as stated: authenticate sends AUTHINFO USER first, sends AUTHINFO
\* PASS only after a 381 reply to USER, returns Ok only when the reply to
\* PASS has the code 281, and in every other outcome returns a Failure
\* error with the code and the raw response of the offending reply.
C29_AuthExchange ==
    client.op = "authenticate" =>
        /\ AuthOrder
        /\ (client.pc = "done" /\ client.tag # "Ok") => FailureOfLastReply

\* C29, amended: as stated, but the other outcomes are of two kinds: when a
\* reply was received and has the wrong code the error is the Failure of
\* that reply; when a command failed (its send or the read of its reply
\* returned an error) the error is the Connection error of that command, no
\* reply is carried, and nothing more is sent.
C29_AuthExchangeAmended ==
    client.op = "authenticate" =>
        /\ AuthOrder
        /\ (client.pc = "done" /\ client.tag # "Ok") =>
               IF client.replies[Len(client.replies)].tag = "Ok"
               THEN FailureOfLastReply
               ELSE /\ client.err = "Connection"
                    /\ client.resp = NoResponse
                    /\ Len(client.sent) = Len(client.replies)

\* authenticate returned Ok after both commands.
C29_Witness ==
    /\ client.op = "authenticate"
    /\ client.tag = "Ok"
    /\ Len(client.sent) = 2

\* C30: fail_unless(desired) returns the response it was called on, as it
\* is, exactly when the response's code is desired, and otherwise the
\* Failure error that holds the response and its code; close makes one send,
\* of QUIT, and returns Ok only when the reply has the code 205, the reply
\* being what it returns.
C30_FailUnlessAndClose ==
    /\ client.op = "fail_unless" =>
           /\ client.tag = "Ok" <=>
                  client.replies[1].resp.code = [known |-> TRUE, num |-> client.desired]
           /\ client.tag # "Ok" => (client.tag = "Err" /\ client.err = "Failure")
           /\ client.resp = client.replies[1].resp
           /\ client.code = client.replies[1].resp.code
    /\ client.op = "close" =>
           /\ Len(client.sent) = 1
           /\ client.sent[1].command = Quit
           /\ client.tag = "Ok" =>
                  /\ client.replies[1].tag = "Ok"
                  /\ client.replies[1].resp.code = [known |-> TRUE, num |-> 205]
                  /\ client.resp = client.replies[1].resp
           /\ (client.replies[1].tag = "Ok" /\ client.tag # "Ok") =>
                  /\ client.err = "Failure"
                  /\ client.resp = client.replies[1].resp
                  /\ client.code = client.resp.code

\* close returned Ok with the 205 reply to its QUIT.
C30_Witness ==
    /\ client.op = "close"
    /\ client.tag = "Ok"
    /\ client.resp.code = [known |-> TRUE, num |-> 205]

\* The line is a header name, ':', one space and CRLF: a header without
\* content.
EmptyContentLine(line) ==
    /\ ColonAt(line) > 1
    /\ \A i \in 1..(ColonAt(line) - 1) : line[i] \in ANotColon
    /\ SubSeq(line, ColonAt(line), Len(line)) = <<58, SP, CR, LF>>

\* C39: a header line that is a name, ':', one space and CRLF, its content
\* being empty, is accepted by take_header and take_headers and gives the
\* name with the empty content: a header section of such a line, other whole
\* header lines and the blank line decodes.
C39_EmptyContentAccepted ==
    (/\ HeaderSectionRead
     /\ HasBlankLine
     /\ BlankLine > 1
     /\ EmptyContentLine(HeldLines[1])
     /\ \A i \in 2..(BlankLine - 1) : WholeHeaderLine(HeldLines[i]))
        => /\ take_header(HeldLines[1], 1).ok
           /\ take_header(HeldLines[1], 1).content = <<>>
           /\ decoded.ok
           /\ decoded.headers[1] =
                  <<SubSeq(HeldLines[1], 1, ColonAt(HeldLines[1]) - 1), <<>> >>

\* C40: the encoded Post begins with the line "POST" and its CRLF and ends
\* with the body, CRLF and a lone ".".
C40_EncodedStartsWithPost ==
    post.encoded =>
        /\ Len(post.buf) >= 6
        /\ SubSeq(post.buf, 1, 6) = <<80, 79, 83, 84, CR, LF>>
        /\ SubSeq(post.buf, Len(post.buf) - Len(post.body) - 2, Len(post.buf))
               = post.body \o <<CR, LF, DOT>>

\* The terminator line of a data block.
DotLine == <<DOT, CR, LF>>

\* A step in which a read returned a response: the peer did nothing.
ReadSucceeds == nchunks' = nchunks /\ eof' = eof /\ result'.tag = "Ok"

\* The response returned in this step was read without the inflater.
Passthrough == ~(compression = "XFeature" /\ EndsWith(result'.resp.first_line, Marker \o CRLF))

\* The response returned in this step is, byte for byte, the front of the
\* stream as it was, what is behind it is left, and it ends where its
\* framing says: the status line at the first LF, the data blocks at the
\* first line that is "." and CRLF.
TakesOneResponse ==
    /\ stream = result'.resp.first_line \o result'.resp.data_blocks.payload \o stream'
    /\ result'.resp.first_line = UpToLF(stream)
    /\ ~result'.resp.data_blocks.present => result'.resp.data_blocks.payload = <<>>
    /\ result'.resp.data_blocks.present =>
           LET L == SplitAtLF(result'.resp.data_blocks.payload)
           IN  /\ L # <<>>
               /\ L[Len(L)] = DotLine
               /\ \A i \in 1..(Len(L) - 1) : L[i] # DotLine

\* C32, as stated: every read that returns a response has taken from the
\* stream exactly the status line and, when it returns data blocks, the
\* bytes up to and with the first "." line, left every byte behind them,
\* and returned as payload the bytes that were delivered, unchanged.
C32_ConsumesOneResponse == [][ReadSucceeds => TakesOneResponse]_vars

\* C32, amended: the same of every read that returns a response whose data
\* blocks were not read through the inflater; the status line of every
\* response is the bytes of the stream up to its first LF.
C32_ConsumesOneResponseAmended ==
    [][ReadSucceeds =>
          /\ result'.resp.first_line = UpToLF(stream)
          /\ Passthrough => TakesOneResponse]_vars

\* A response with data blocks was read raw and bytes of the next response
\* are still unread behind it.
C32_Witness ==
    /\ HasDataBlocks
    /\ ~Marked
    /\ stream # <<>>
    /\ last.consumed = result.resp.first_line \o result.resp.data_blocks.payload

\* What read_response(m) with the fault f comes to on the connection as it
\* is, the stream delivering nothing more.
ReadAtEof(m, f) ==
    read_response_cfg(stream, TRUE, first_line_buf, data_blocks_buf, m, f, compression)

\* The outcome o of a read at the end of the stream is as it must be.
ReturnsAtEof(o, m) ==
    /\ o.status \in {"ok", "err"}
    /\ (\A i \in 1..Len(stream) : stream[i] # LF) => o.status = "err"
    /\ (m = "SomeTrue" /\ \A i \in 2..Len(SplitAtLF(stream)) : SplitAtLF(stream)[i] # DotLine)
           => o.status = "err"
    /\ (o.status = "ok" /\ o.resp.data_blocks.present) =>
           EndsWith(o.resp.data_blocks.payload, DotLine)

\* C33: once the stream has delivered all it ever will, read_response
\* returns, whatever its argument: it does not wait; it returns an error
\* when the stream holds no LF, so no whole status line, and when data
\* blocks are to be read and no line after the status line is the "." line;
\* the data blocks of a response it returns end with the "." line.
C33_ReadTerminates ==
    eof => \A m \in Overrides, f \in Faults : ReturnsAtEof(ReadAtEof(m, f), m)

\* The stream ended after the status line "101 x" and the line "..", with no
\* "." line: the read took both lines and returned an error.
C33_Witness ==
    /\ eof
    /\ ReadReturned
    /\ result.tag = "Err"
    /\ stream = <<>>
    /\ last.consumed = <<49, 48, 49, SP, 120, CR, LF, DOT, DOT, CR, LF>>

\* ------------------------------------------------ types/command: rendering
\* The strings a caller puts in the fields of a command: "a", "a*" and a
\* string that holds a line break, "a" CR LF "b".
FieldStrings == { <<97>>, <<97, 42>>, <<97, CR, LF, 98>> }

\* Option<String> of a wildmat: None, or Some of a field string.
Wildmats == {<<>>} \cup {<<w>> : w \in FieldStrings}

ListVerbs == {"Active", "ActiveTimes", "Newsgroups", "DistribPats", "OverviewFmt"}

\* The List variants that have a wildmat field.
WithWildmat == {"Active", "ActiveTimes", "Newsgroups"}

\* The command values: Group(name), AuthInfo::User(username),
\* AuthInfo::Pass(password) and the variants of List.
CommandValues ==
    {[verb |-> v, field |-> f, wildmat |-> <<>>] :
         v \in {"Group", "User", "Pass"}, f \in FieldStrings}
    \cup {[verb |-> v, field |-> <<>>, wildmat |-> w] : v \in WithWildmat, w \in Wildmats}
    \cup {[verb |-> v, field |-> <<>>, wildmat |-> <<>>] : v \in ListVerbs \ WithWildmat}

\* print_wildmat in the Display of List: " {}" of a wildmat that is there
print_wildmat(wildmat) == IF wildmat # <<>> THEN <<SP>> \o wildmat[1] ELSE <<>>

\* What the Display of List writes after "LIST", arm by arm.
ListKeyword(verb) ==
    CASE verb = "Active"      -> <<32, 65, 67, 84, 73, 86, 69>>
      [] verb = "OverviewFmt" -> <<32, 79, 86, 69, 82, 86, 73, 69, 87, 46, 70, 77, 84>>
      [] verb = "ActiveTimes" -> <<32, 65, 67, 84, 73, 86, 69, 32, 84, 73, 77, 69, 83>>
      [] verb = "Newsgroups"  -> <<32, 65, 67, 84, 73, 86, 69, 32, 84, 73, 77, 69, 83>>
      [] verb = "DistribPats" -> <<32, 68, 73, 83, 84, 82, 73, 66, 46, 80, 65, 84, 83>>

\* ToString::to_string of a command, by its Display: "GROUP {}",
\* "AUTHINFO USER {}", "AUTHINFO PASS {}", and "LIST", the keyword and the
\* wildmat.  A field is written as it is.
to_string(c) ==
    CASE c.verb = "Group" -> <<71, 82, 79, 85, 80, 32>> \o c.field
      [] c.verb = "User"  -> <<65, 85, 84, 72, 73, 78, 70, 79, 32, 85, 83, 69, 82, 32>> \o c.field
      [] c.verb = "Pass"  -> <<65, 85, 84, 72, 73, 78, 70, 79, 32, 80, 65, 83, 83, 32>> \o c.field
      [] OTHER            -> <<76, 73, 83, 84>> \o ListKeyword(c.verb) \o print_wildmat(c.wildmat)

\* NntpConnection::send(&c) of a command value c
SendCommand(c, so) ==
    /\ cmd' = c
    /\ SendReturns(to_string(c), so)
    /\ UNCHANGED <<cfgVars, capVars, decoded, held, post, client, config>>

NextRender == \E c \in CommandValues, so \in SendOutcomes : SendCommand(c, so)

SpecRender == Init /\ [][NextRender]_vars

\* How many CRLF pairs b holds.
CountCRLF(b) == Cardinality({i \in 1..(Len(b) - 1) : b[i] = CR /\ b[i + 1] = LF})

\* C37: a send of a command value that returned Ok, every write having
\* taken all it was offered, has put on the wire bytes that hold exactly one
\* CRLF, at their very end, whatever the fields of the command hold.
C37_OneLinePerSend ==
    (cmd # NoCommand /\ result.tag = "Ok" /\ wire = last.command \o CRLF) =>
        /\ CountCRLF(wire) = 1
        /\ EndsWith(wire, CRLF)

\* The keyword each List variant is to be rendered with: ACTIVE,
\* ACTIVE.TIMES, NEWSGROUPS, DISTRIB.PATS, OVERVIEW.FMT.
KeywordOf(verb) ==
    CASE verb = "Active"      -> <<65, 67, 84, 73, 86, 69>>
      [] verb = "ActiveTimes" -> <<65, 67, 84, 73, 86, 69, 46, 84, 73, 77, 69, 83>>
      [] verb = "Newsgroups"  -> <<78, 69, 87, 83, 71, 82, 79, 85, 80, 83>>
      [] verb = "DistribPats" -> <<68, 73, 83, 84, 82, 73, 66, 46, 80, 65, 84, 83>>
      [] verb = "OverviewFmt" -> <<79, 86, 69, 82, 86, 73, 69, 87, 46, 70, 77, 84>>

\* C38: a List variant is rendered as "LIST", a space, the variant's own
\* keyword and, when a wildmat is there, a space and the wildmat; no other
\* List variant with the same wildmat is rendered as the same line.
C38_ListKeywords ==
    cmd.verb \in ListVerbs =>
        /\ last.command = <<76, 73, 83, 84, SP>> \o KeywordOf(cmd.verb) \o
                              (IF cmd.wildmat # <<>> THEN <<SP>> \o cmd.wildmat[1] ELSE <<>>)
        /\ \A c \in CommandValues :
               (c.verb \in ListVerbs /\ c.verb # cmd.verb /\ c.wildmat = cmd.wildmat) =>
                   to_string(c) # last.command

\* ------------------------------------------- client: the session functions
\* The commands as to_string renders them: "GROUP g", "CAPABILITIES",
\* "BODY 1", "STAT 1".
GroupG == <<71, 82, 79, 85, 80, 32, 103>>

CapabilitiesCmd == <<67, 65, 80, 65, 66, 73, 76, 73, 84, 73, 69, 83>>

Body1 == <<66, 79, 68, 89, 32, 49>>

Stat1 == <<83, 84, 65, 84, 32, 49>>

\* The replies of the server: "222 1 m" and "221 1 m" with the data block
\* "h"; "223 7 m" and "223 x"; "211 5 1 2 g" and "211 5"; "101 x" with the
\* list "A b" and with a line of one space; "430 x", "420 x", "423 x",
\* "411 x" and "500 x".
SessionChunks ==
    { <<50, 50, 50, 32, 49, 32, 109, 13, 10, 104, 13, 10, 46, 13, 10>>,
      <<50, 50, 49, 32, 49, 32, 109, 13, 10, 104, 13, 10, 46, 13, 10>>,
      <<50, 50, 51, 32, 55, 32, 109, 13, 10>>,
      <<50, 50, 51, 32, 120, 13, 10>>,
      <<50, 49, 49, 32, 53, 32, 49, 32, 50, 32, 103, 13, 10>>,
      <<50, 49, 49, 32, 53, 13, 10>>,
      <<49, 48, 49, 32, 120, 13, 10, 65, 32, 98, 13, 10, 46, 13, 10>>,
      <<49, 48, 49, 32, 120, 13, 10, 32, 13, 10, 46, 13, 10>>,
      <<52, 51, 48, 32, 120, 13, 10>>,
      <<52, 50, 48, 32, 120, 13, 10>>,
      <<52, 50, 51, 32, 120, 13, 10>>,
      <<52, 49, 49, 32, 120, 13, 10>>,
      <<53, 48, 48, 32, 120, 13, 10>> }

\* How many replies the server writes in a session.
MaxSessionChunks == 2

\* The server writes one more reply, when the client has read the one
\* before.
SessionServerWrite(chunk) ==
    /\ ~eof
    /\ stream = <<>>
    /\ nchunks < MaxSessionChunks
    /\ stream' = stream \o chunk
    /\ nchunks' = nchunks + 1
    /\ UNCHANGED <<eof, first_line_buf, data_blocks_buf, wire, result, last>>
    /\ UNCHANGED parseVars
    /\ UNCHANGED extVars

\* The outcomes of a write the session functions are run against.
SessionSends == {"ok", "err2"}

\* Error::Deserialization(..), which `?` returns from a try_from
Deserialization ==
    [tag |-> "Err", err |-> "Deserialization", code |-> ResponseCodeFrom(0), resp |-> NoResponse]

\* The code is ResponseCode::Known(kind).
IsKind(resp, kind) == resp.code = [known |-> TRUE, num |-> kind]

\* Group::try_from and Capabilities::try_from of the build
GroupOf(build, resp) == IF build = "mod.rs" THEN GroupTryFromMod(resp) ELSE GroupTryFrom(resp)

CapabilitiesOf(build, resp) ==
    IF build = "mod.rs" THEN CapabilitiesTryFromMod(resp) ELSE CapabilitiesTryFrom(resp)

\* What a client function returns (ret), the value in its Ok (value) and
\* the group and capabilities it leaves cached.
Outcome(ret, value, group, capabilities) ==
    [ret |-> ret, value |-> value, group |-> group, capabilities |-> capabilities]

\* A select_group that caches whatever the decoder returned.
select_group_caching_always(o, build, group, capabilities) ==
    IF o.result.tag = "Err" THEN Outcome(Connection, NoDecoded, group, capabilities)
    ELSE IF IsKind(o.result.resp, 211)
    THEN LET g == GroupOf(build, o.result.resp)
         IN  Outcome(IF g.ok THEN OkWith(o.result.resp) ELSE Deserialization, g, <<g>>,
                     capabilities)
    ELSE Outcome(Failure(o.result.resp), NoDecoded, group, capabilities)

\* NntpClient::select_group: o is what conn.command(&cmd::Group(..)) came to.
select_group(o, build, group, capabilities) ==
    IF o.result.tag = "Err" THEN Outcome(Connection, NoDecoded, group, capabilities)
    ELSE IF IsKind(o.result.resp, 211)
    THEN LET g == GroupOf(build, o.result.resp)
         IN  IF g.ok THEN Outcome(OkWith(o.result.resp), g, <<g>>, capabilities)
             ELSE Outcome(Deserialization, g, group, capabilities)
    ELSE Outcome(Failure(o.result.resp), NoDecoded, group, capabilities)

\* NntpClient::update_capabilities
update_capabilities(o, build, group, capabilities) ==
    IF o.result.tag = "Err" THEN Outcome(Connection, NoDecoded, group, capabilities)
    ELSE IF fail_unless(o.result.resp, 101).tag = "Err"
    THEN Outcome(Failure(o.result.resp), NoDecoded, group, capabilities)
    ELSE LET c == CapabilitiesOf(build, o.result.resp)
         IN  IF c.ok THEN Outcome(OkWith(o.result.resp), c, group, <<c>>)
             ELSE Outcome(Deserialization, c, group, capabilities)

\* NntpClient::body: command(&body)?.fail_unless(Kind::Head)?, then
\* Body::try_from.
body(o, build, group, capabilities) ==
    IF o.result.tag = "Err" THEN Outcome(Connection, NoDecoded, group, capabilities)
    ELSE IF fail_unless(o.result.resp, 221).tag = "Err"
    THEN Outcome(Failure(o.result.resp), NoDecoded, group, capabilities)
    ELSE LET b == BodyTryFrom(o.result.resp)
         IN  Outcome(IF b.ok THEN OkWith(o.result.resp) ELSE Deserialization, b, group,
                     capabilities)

\* The codes for which stat returns Ok(None): NoArticleWithMessageId,
\* InvalidCurrentArticleNumber, NoArticleWithNumber.
NoArticleKinds == {430, 420, 423}

\* A stat that returns Ok(None) for every code but 223.
stat_never_failing(o, build, group, capabilities) ==
    IF o.result.tag = "Err" THEN Outcome(Connection, NoDecoded, group, capabilities)
    ELSE IF IsKind(o.result.resp, 223)
    THEN LET st == StatTryFrom(o.result.resp)
         IN  Outcome(IF st.ok THEN OkWith(o.result.resp) ELSE Deserialization, st, group,
                     capabilities)
    ELSE Outcome(OkWith(o.result.resp), NoDecoded, group, capabilities)

\* NntpClient::stat: Ok(None) is an Ok whose value is NoDecoded.
stat(o, build, group, capabilities) ==
    IF o.result.tag = "Err" THEN Outcome(Connection, NoDecoded, group, capabilities)
    ELSE IF IsKind(o.result.resp, 223)
    THEN LET st == StatTryFrom(o.result.resp)
         IN  Outcome(IF st.ok THEN OkWith(o.result.resp) ELSE Deserialization, st, group,
                     capabilities)
    ELSE IF \E k \in NoArticleKinds : IsKind(o.result.resp, k)
    THEN Outcome(OkWith(o.result.resp), NoDecoded, group, capabilities)
    ELSE Outcome(Failure(o.result.resp), NoDecoded, group, capabilities)

\* The client function op, which sent c, returns r after its command came
\* to o.
SessionReturns(op, c, o, r) ==
    /\ Returns(op, c, "", o)
    /\ client' = [ClientAfter(op, r.ret, o, <<>>, <<>>) EXCEPT
                      !.group = r.group, !.capabilities = r.capabilities]
    /\ decoded' = r.value
    /\ UNCHANGED <<eof, nchunks, pin, pfn, pout, conn, compression, held, post, cmd, config>>

SelectGroupReturns(o) ==
    SessionReturns("select_group", GroupG, o,
                   select_group(o, client.build, client.group, client.capabilities))

UpdateCapabilitiesReturns(o) ==
    SessionReturns("update_capabilities", CapabilitiesCmd, o,
                   update_capabilities(o, client.build, client.group, client.capabilities))

BodyReturns(o) ==
    SessionReturns("body", Body1, o, body(o, client.build, client.group, client.capabilities))

StatReturns(o) ==
    SessionReturns("stat", Stat1, o, stat(o, client.build, client.group, client.capabilities))

SelectGroup(so, fault) ==
    SelectGroupReturns(command(stream, eof, first_line_buf, data_blocks_buf, GroupG, so, fault))

UpdateCapabilities(so, fault) ==
    UpdateCapabilitiesReturns(
        command(stream, eof, first_line_buf, data_blocks_buf, CapabilitiesCmd, so, fault))

BodyOf(so, fault) ==
    BodyReturns(command(stream, eof, first_line_buf, data_blocks_buf, Body1, so, fault))

StatOf(so, fault) ==
    StatReturns(command(stream, eof, first_line_buf, data_blocks_buf, Stat1, so, fault))

\* A client that connect returned: no group, the capabilities of the reply
\* "101 x" with an empty list, decoded as the build decodes them.
ConnectedClients ==
    {[NoClient EXCEPT !.build = b,
                      !.capabilities = <<CapabilitiesOf(b,
                          ResponseOf(<<49, 48, 49, 32, 120, 13, 10, 46, 13, 10>>))>>] :
         b \in {"mod.rs", "files"}}

InitSession ==
    /\ stream = <<>>
    /\ eof = FALSE
    /\ nchunks = 0
    /\ first_line_buf = <<>>
    /\ data_blocks_buf = <<>>
    /\ wire = <<>>
    /\ result = NoResult
    /\ last = NoLast
    /\ conn = "open"
    /\ compression = "None"
    /\ first_line_cap = WithCapacity(FirstLineBufSize)
    /\ data_blocks_cap = WithCapacity(DataBlocksBufSize)
    /\ decoded = NoDecoded
    /\ held = NoHeld
    /\ post = NoPost
    /\ client \in ConnectedClients
    /\ cmd = NoCommand
    /\ config = DefaultConfig
    /\ pin = <<>>
    /\ pfn = "none"
    /\ pout = NoParse

NextSession ==
    \/ \E chunk \in SessionChunks : SessionServerWrite(chunk)
    \/ ServerClose
    \/ \E so \in SessionSends, fault \in CmdFaults : SelectGroup(so, fault)
    \/ \E so \in SessionSends, fault \in CmdFaults : UpdateCapabilities(so, fault)
    \/ \E so \in SessionSends, fault \in CmdFaults : BodyOf(so, fault)
    \/ \E so \in SessionSends, fault \in CmdFaults : StatOf(so, fault)

SpecSession == InitSession /\ [][NextSession]_vars

\* The reply the client function got, and the tokens of its first line.
Reply == client.replies[1].resp

ReplyTokens == split_whitespace(Reply.first_line)

\* The function got a reply of the code kind.
Replied(op, kind) ==
    /\ client.op = op
    /\ client.replies[1].tag = "Ok"
    /\ IsKind(Reply, kind)

\* The first line of the reply is a code, an article number and a message
\* id.
ArticleReplyWellFormed ==
    /\ Len(ReplyTokens) >= 3
    /\ \A i \in 1..Len(ReplyTokens[2]) : IsDigit(ReplyTokens[2][i])

\* C31: when the server answers BODY with a well-formed 222 reply that has
\* a data block, body returns Ok with the Body of that reply: its article
\* number, its message id and its payload.
C31_BodyReturnsBody ==
    (Replied("body", 222) /\ ArticleReplyWellFormed /\ Reply.data_blocks.present) =>
        /\ client.tag = "Ok"
        /\ decoded.ok
        /\ decoded.number = ReplyTokens[2]
        /\ decoded.message_id = ReplyTokens[3]
        /\ decoded.body = Reply.data_blocks.payload

\* What is common to the claim about stat and to its amendment: one
\* command is sent, STAT; a reply of the code 430, 420 or 423 gives Ok(None);
\* a reply of any other code but 223 gives the Failure error that holds the
\* reply.
StatOtherCodes ==
    /\ Len(client.sent) = 1
    /\ client.sent[1].command = Stat1
    /\ (\E k \in NoArticleKinds : Replied("stat", k)) =>
           (client.tag = "Ok" /\ decoded = NoDecoded)
    /\ (client.replies[1].tag = "Ok" /\ \A k \in NoArticleKinds \cup {223} : ~IsKind(Reply, k)) =>
           /\ client.tag = "Err"
           /\ client.err = "Failure"
           /\ client.resp = Reply
           /\ client.code = Reply.code

\* stat returned Some(Stat) of the reply.
ReturnedSomeStat ==
    /\ client.tag = "Ok"
    /\ decoded.fn = "stat"
    /\ decoded.ok
    /\ decoded.number = ReplyTokens[2]
    /\ decoded.message_id = ReplyTokens[3]

\* C36, as stated: stat returns Some(Stat) when the code of the reply is
\* 223, None when it is 430, 420 or 423, and a Failure error with the reply
\* for every other code; it sends exactly one command.
C36_StatByCode ==
    client.op = "stat" =>
        /\ StatOtherCodes
        /\ Replied("stat", 223) => ReturnedSomeStat

\* C36, amended: as stated, but a 223 reply gives Some(Stat) when its first
\* line has an article number and a message id, and a Deserialization error
\* when it has not.
C36_StatByCodeAmended ==
    client.op = "stat" =>
        /\ StatOtherCodes
        /\ Replied("stat", 223) =>
               IF ArticleReplyWellFormed THEN ReturnedSomeStat
               ELSE client.tag = "Err" /\ client.err = "Deserialization"

\* stat returned Ok(None) for a 423 reply.
C36_Witness ==
    /\ Replied("stat", 423)
    /\ client.tag = "Ok"
    /\ decoded = NoDecoded

\* C35: a step changes the cached group only when it is a select_group that
\* got a 211 reply which decoded, the group cached being the one decoded; it
\* changes the cached capabilities only when it is an update_capabilities
\* that got a 101 reply which decoded; a call that returns an error leaves
\* both as they were.
C35_CacheChangesOnSuccess ==
    [][/\ client'.group # client.group =>
              /\ client'.op = "select_group"
              /\ client'.tag = "Ok"
              /\ client'.replies[1].tag = "Ok"
              /\ IsKind(client'.replies[1].resp, 211)
              /\ decoded'.ok
              /\ client'.group = <<decoded'>>
       /\ client'.capabilities # client.capabilities =>
              /\ client'.op = "update_capabilities"
              /\ client'.tag = "Ok"
              /\ client'.replies[1].tag = "Ok"
              /\ IsKind(client'.replies[1].resp, 101)
              /\ decoded'.ok
              /\ client'.capabilities = <<decoded'>>
       /\ client'.tag = "Err" =>
              /\ client'.group = client.group
              /\ client'.capabilities = client.capabilities]_vars

\* select_group got a 211 reply that did not decode, and the group cached
\* by an earlier select_group is still there.
C35_Witness ==
    /\ Replied("select_group", 211)
    /\ client.err = "Deserialization"
    /\ client.group # <<>>

\* ------------------------------------------------- ClientConfig::connect
\* The configurations: with or without the credentials ("u", "p"), with or
\* without the group "g".
Configs ==
    {[authinfo |-> a, group |-> g] : a \in {<<>>, << <<<<117>>, <<112>>>> >>},
                                     g \in {<<>>, << <<103>> >>}}

\* The commands connect renders from its configuration.
UserOf(cfg) == to_string([verb |-> "User", field |-> cfg.authinfo[1][1], wildmat |-> <<>>])

PassOf(cfg) == to_string([verb |-> "Pass", field |-> cfg.authinfo[1][2], wildmat |-> <<>>])

GroupCmdOf(cfg) == to_string([verb |-> "Group", field |-> cfg.group[1], wildmat |-> <<>>])

\* What the server writes: the greeting "200 x", "381 x", "281 x", "101 x"
\* with the list "A b", "211 5 1 2 g", "211 5" and "502 x".
SetupChunks ==
    { <<50, 48, 48, 32, 120, 13, 10>>,
      <<51, 56, 49, 32, 120, 13, 10>>,
      <<50, 56, 49, 32, 120, 13, 10>>,
      <<49, 48, 49, 32, 120, 13, 10, 65, 32, 98, 13, 10, 46, 13, 10>>,
      <<50, 49, 49, 32, 53, 32, 49, 32, 50, 32, 103, 13, 10>>,
      <<50, 49, 49, 32, 53, 13, 10>>,
      <<53, 48, 50, 32, 120, 13, 10>> }

\* How many lines the server writes while connect runs.
MaxSetupChunks == 5

\* The server writes its greeting or a reply; it writes the next one when
\* the client has read this one.
SetupServerWrite(chunk) ==
    /\ ~eof
    /\ stream = <<>>
    /\ nchunks < MaxSetupChunks
    /\ stream' = stream \o chunk
    /\ nchunks' = nchunks + 1
    /\ UNCHANGED <<eof, first_line_buf, data_blocks_buf, wire, result, last>>
    /\ UNCHANGED parseVars
    /\ UNCHANGED extVars

\* A step of connect went through: connect goes on.
GoesOn == [tag |-> "none", err |-> "", code |-> ResponseCodeFrom(0), resp |-> NoResponse]

\* connect returns Ok(NntpClient { .. }).
ClientProduced == [GoesOn EXCEPT !.tag = "Ok"]

\* get_capabilities(&mut conn): o is what conn.command(&cmd::Capabilities)
\* came to.
get_capabilities(o, build, group, capabilities) ==
    IF o.result.tag = "Err" THEN Outcome(Connection, NoDecoded, group, capabilities)
    ELSE IF ~IsKind(o.result.resp, 101)
    THEN Outcome(Failure(o.result.resp), NoDecoded, group, capabilities)
    ELSE LET c == CapabilitiesOf(build, o.result.resp)
         IN  IF c.ok THEN Outcome(GoesOn, c, group, <<c>>)
             ELSE Outcome(Deserialization, c, group, capabilities)

\* A select_group that lets connect go on without a group when the reply is
\* not 211.
select_group_or_none(o, build, group, capabilities) ==
    IF o.result.tag = "Err" THEN Outcome(Connection, NoDecoded, group, capabilities)
    ELSE IF IsKind(o.result.resp, 211)
    THEN LET g == GroupOf(build, o.result.resp)
         IN  IF g.ok THEN Outcome(GoesOn, g, <<g>>, capabilities)
             ELSE Outcome(Deserialization, g, group, capabilities)
    ELSE Outcome(GoesOn, NoDecoded, group, capabilities)

\* The function select_group(&mut conn, name) that connect calls
select_group_fn(o, build, group, capabilities) ==
    IF o.result.tag = "Err" THEN Outcome(Connection, NoDecoded, group, capabilities)
    ELSE IF IsKind(o.result.resp, 211)
    THEN LET g == GroupOf(build, o.result.resp)
         IN  IF g.ok THEN Outcome(GoesOn, g, <<g>>, capabilities)
             ELSE Outcome(Deserialization, g, group, capabilities)
    ELSE Outcome(Failure(o.result.resp), NoDecoded, group, capabilities)

\* The steps of ClientConfig::connect after the step at: the credential
\* exchange when credentials are configured, CAPABILITIES, GROUP when a
\* group is configured, then the return of the client.
StepAfter(at, cfg) ==
    CASE at = "connect"      -> IF cfg.authinfo # <<>> THEN "user" ELSE "capabilities"
      [] at = "user"         -> "pass"
      [] at = "pass"         -> "capabilities"
      [] at = "capabilities" -> IF cfg.group # <<>> THEN "group" ELSE "done"
      [] at = "group"        -> "done"

\* connect after its step at, which came to r: an error is returned with
\* `?` and nothing is kept; otherwise connect goes to its next step, and
\* after its last it returns the client with what the steps gave.
SetupAfter(at, r, o) ==
    LET next == IF r.ret.tag = "Err" THEN "done" ELSE StepAfter(at, config)
        ret  == IF r.ret.tag = "Err" THEN r.ret
                ELSE IF next = "done" THEN ClientProduced ELSE GoesOn
    IN  [op |-> "connect", pc |-> next,
         tag |-> ret.tag, err |-> ret.err, code |-> ret.code, resp |-> ret.resp,
         sent |-> client.sent \o SelectSeq(o.calls, IsSendCall),
         replies |-> Append(client.replies, o.result), desired |-> 0,
         group |-> IF r.ret.tag = "Err" THEN <<>> ELSE r.group,
         capabilities |-> IF r.ret.tag = "Err" THEN <<>> ELSE r.capabilities,
         build |-> client.build]

\* A step of connect that sends c returns.
SetupReturns(at, c, o, r) ==
    /\ Returns("connect", c, "", o)
    /\ client' = SetupAfter(at, r, o)
    /\ UNCHANGED <<eof, nchunks, pin, pfn, pout, compression, decoded, held, post, cmd,
                   config>>

\* What the steps of the credential exchange give connect.
AsOutcome(ret) ==
    Outcome(IF ret.tag = "Err" THEN ret ELSE GoesOn, NoDecoded, client.group,
            client.capabilities)

SetupConnectReturns(o) ==
    /\ conn' = ConnOf(o)
    /\ SetupReturns("connect", <<>>, o,
                    AsOutcome(IF o.result.tag = "Err" THEN Connection ELSE GoesOn))

SetupUserReturns(o) ==
    /\ conn' = conn
    /\ SetupReturns("user", UserOf(config), o, AsOutcome(authenticate_user(o)))

SetupPassReturns(o) ==
    /\ conn' = conn
    /\ SetupReturns("pass", PassOf(config), o, AsOutcome(authenticate_pass(o)))

SetupCapabilitiesReturns(o) ==
    /\ conn' = conn
    /\ SetupReturns("capabilities", CapabilitiesCmd, o,
                    get_capabilities(o, client.build, client.group, client.capabilities))

SetupGroupReturns(o) ==
    /\ conn' = conn
    /\ SetupReturns("group", GroupCmdOf(config), o,
                    select_group_fn(o, client.build, client.group, client.capabilities))

\* ClientConfig::connect, from its call to the return of
\* NntpConnection::connect
SetupConnect(co, fault) ==
    /\ client.pc = "idle"
    /\ SetupConnectReturns(connect(stream, eof, co, fault))

\* authenticate(&mut conn, username, password), in its two commands
SetupUser(so, fault) ==
    /\ client.pc = "user"
    /\ SetupUserReturns(
           command(stream, eof, first_line_buf, data_blocks_buf, UserOf(config), so, fault))

SetupPass(so, fault) ==
    /\ client.pc = "pass"
    /\ SetupPassReturns(
           command(stream, eof, first_line_buf, data_blocks_buf, PassOf(config), so, fault))

\* let capabilities = get_capabilities(&mut conn)?
SetupCapabilities(so, fault) ==
    /\ client.pc = "capabilities"
    /\ SetupCapabilitiesReturns(
           command(stream, eof, first_line_buf, data_blocks_buf, CapabilitiesCmd, so, fault))

\* select_group(&mut conn, name)?.into(), and the return of the client
SetupGroup(so, fault) ==
    /\ client.pc = "group"
    /\ SetupGroupReturns(
           command(stream, eof, first_line_buf, data_blocks_buf, GroupCmdOf(config), so, fault))

\* Before ClientConfig::connect is called on a configuration.
InitSetup ==
    /\ stream = <<>>
    /\ eof = FALSE
    /\ nchunks = 0
    /\ first_line_buf = <<>>
    /\ data_blocks_buf = <<>>
    /\ wire = <<>>
    /\ result = NoResult
    /\ last = NoLast
    /\ conn = "unconnected"
    /\ compression = "None"
    /\ first_line_cap = WithCapacity(FirstLineBufSize)
    /\ data_blocks_cap = WithCapacity(DataBlocksBufSize)
    /\ decoded = NoDecoded
    /\ held = NoHeld
    /\ post = NoPost
    /\ client \in {[NoClient EXCEPT !.build = b] : b \in {"mod.rs", "files"}}
    /\ cmd = NoCommand
    /\ config \in Configs
    /\ pin = <<>>
    /\ pfn = "none"
    /\ pout = NoParse

NextSetup ==
    \/ \E chunk \in SetupChunks : SetupServerWrite(chunk)
    \/ ServerClose
    \/ \E co \in ConnectOutcomes, fault \in CmdFaults : SetupConnect(co, fault)
    \/ \E so \in SessionSends, fault \in CmdFaults : SetupUser(so, fault)
    \/ \E so \in SessionSends, fault \in CmdFaults : SetupPass(so, fault)
    \/ \E so \in SessionSends, fault \in CmdFaults : SetupCapabilities(so, fault)
    \/ \E so \in SessionSends, fault \in CmdFaults : SetupGroup(so, fault)

SpecSetup == InitSetup /\ [][NextSetup]_vars

\* The commands connect is to send for the configuration, in order, and
\* the code of the reply that lets it go on after each.
ExpectedCommands ==
    (IF config.authinfo # <<>> THEN <<UserOf(config), PassOf(config)>> ELSE <<>>)
        \o <<CapabilitiesCmd>>
        \o (IF config.group # <<>> THEN <<GroupCmdOf(config)>> ELSE <<>>)

ExpectedCodes ==
    (IF config.authinfo # <<>> THEN <<381, 281>> ELSE <<>>)
        \o <<101>>
        \o (IF config.group # <<>> THEN <<211>> ELSE <<>>)

\* C34: connect first opens the connection and reads the greeting, sending
\* nothing; the commands it then sends are, in order, those of the
\* credential exchange when credentials are configured, CAPABILITIES, and
\* GROUP when a group is configured; a command is sent only after the
\* greeting was read and every earlier command got its reply with the code
\* that lets connect go on; when a step fails connect returns an error at
\* that step and produces no client; the client produced has seen every
\* step succeed, and holds a group exactly when one was configured.
C34_ConnectOrder ==
    client.op = "connect" =>
        /\ Len(client.replies) = Len(client.sent) + 1
        /\ Len(client.sent) <= Len(ExpectedCommands)
        /\ \A i \in 1..Len(client.sent) : client.sent[i].command = ExpectedCommands[i]
        /\ \A i \in 1..Len(client.replies) :
               (i < Len(client.replies) \/ client.tag # "Err") =>
                   /\ client.replies[i].tag = "Ok"
                   /\ i > 1 => IsKind(client.replies[i].resp, ExpectedCodes[i - 1])
        /\ client.replies[Len(client.replies)].tag = "Err" => client.tag = "Err"
        /\ (Len(client.sent) >= 1 /\ client.replies[Len(client.replies)].tag = "Ok"
                /\ ~IsKind(client.replies[Len(client.replies)].resp,
                           ExpectedCodes[Len(client.sent)])) => client.tag = "Err"
        /\ client.tag = "Err" =>
               (client.pc = "done" /\ client.group = <<>> /\ client.capabilities = <<>>)
        /\ client.tag = "Ok" =>
               /\ client.pc = "done"
               /\ conn = "open"
               /\ Len(client.sent) = Len(ExpectedCommands)
               /\ client.capabilities # <<>>
               /\ client.group # <<>> <=> config.group # <<>>

\* connect produced a client with a group after the credential exchange,
\* CAPABILITIES and GROUP.
C34_Witness ==
    /\ client.op = "connect"
    /\ client.tag = "Ok"
    /\ Len(client.sent) = 4
    /\ client.group # <<>>

====
